---- MODULE Spec2Model ----
(***************************************************************************)
(* Model of the protochain Solana gateway: the transaction state           *)
(* validator (validation.rs), the transaction service operations           *)
(* compile / estimate / simulate / sign / submit (service_impl.rs), the    *)
(* classification of a failed send (error_builder.rs) and the signature    *)
(* monitoring bridge (websocket/manager.rs and the bridge task of          *)
(* service_impl.rs).                                                       *)
(***************************************************************************)
EXTENDS Integers, Sequences, FiniteSets, TLC

VARIABLES
    vin,        \* validator: the arguments of the call under evaluation
    vout,       \* validator: its result ("pending" before the call returns)
    tx,         \* service: the Transaction record the client currently holds
    resp,       \* service: the response of the last request
    task,       \* monitor: per subscription, the monitoring task
    websocket_rx,           \* monitor: per subscription, the unbounded channel's queue
    active_subscriptions,   \* monitor: signature -> subscription of its handle (0: none)
    bridge,     \* monitor: per subscription, the bridge task: "running", or how it ended
    grpc_stream,            \* monitor: per subscription, what the client stream delivered
    chain,      \* monitor: signature -> what the chain knows of its transaction
    cleanup,    \* monitor: signatures a running sweep has marked for removal
    manager     \* monitor: "running", "aborting" (inside shutdown) or "stopped"

vvars == <<vin, vout>>
svars == <<tx, resp>>
mvars == <<task, websocket_rx, active_subscriptions, bridge, grpc_stream, chain,
           cleanup, manager>>
vars == <<vin, vout, tx, resp, task, websocket_rx, active_subscriptions, bridge,
          grpc_stream, chain, cleanup, manager>>

(***************************************************************************)
(* Transaction records (proto Transaction).  A string field is modelled by *)
(* its value with "" for the empty string; data is a record whose fmt      *)
(* field tells what was serialised into it ("empty" is the empty string).  *)
(***************************************************************************)
TransactionState == {"Unspecified", "Draft", "Compiled", "PartiallySigned", "FullySigned"}

EmptyData == [fmt |-> "empty"]

Ok == "Ok"

(***************************************************************************)
(* validation.rs                                                           *)
(***************************************************************************)
\* The match arms are tried in source order.
validate_state_transition(from, to) ==
    IF from = "Draft" /\ to = "Compiled" THEN Ok
    ELSE IF from = "Compiled" /\ to = "PartiallySigned" THEN Ok
    ELSE IF from = "Compiled" /\ to = "FullySigned" THEN Ok
    ELSE IF from = "PartiallySigned" /\ to = "FullySigned" THEN Ok
    ELSE IF from = "FullySigned" THEN "Err:terminal"
    ELSE IF to = "Draft" /\ from # "Draft" THEN "Err:back_to_draft"
    ELSE IF from = "PartiallySigned" /\ to = "Compiled" THEN "Err:backward"
    ELSE IF from = "Unspecified" THEN "Err:from_unspecified"
    ELSE IF to = "Unspecified" THEN "Err:to_unspecified"
    ELSE "Err:invalid_transition"

consistency_draft(transaction) ==
    IF transaction.instructions = <<>> THEN "Err:draft_no_instructions"
    ELSE IF transaction.data # EmptyData THEN "Err:draft_has_data"
    ELSE IF transaction.signatures # <<>> THEN "Err:draft_has_signatures"
    ELSE Ok

\* A consistency check that forgets the fee payer of a compiled transaction
consistency_compiled_no_fee_payer_check(transaction) ==
    IF transaction.instructions = <<>> THEN "Err:compiled_no_instructions"
    ELSE IF transaction.data = EmptyData THEN "Err:compiled_no_data"
    ELSE IF transaction.signatures # <<>> THEN "Err:compiled_has_signatures"
    ELSE IF transaction.recent_blockhash = "" THEN "Err:compiled_no_blockhash"
    ELSE Ok

consistency_compiled(transaction) ==
    IF transaction.instructions = <<>> THEN "Err:compiled_no_instructions"
    ELSE IF transaction.data = EmptyData THEN "Err:compiled_no_data"
    ELSE IF transaction.signatures # <<>> THEN "Err:compiled_has_signatures"
    ELSE IF transaction.recent_blockhash = "" THEN "Err:compiled_no_blockhash"
    ELSE IF transaction.fee_payer = "" THEN "Err:compiled_no_fee_payer"
    ELSE Ok

consistency_partially_signed(transaction) ==
    IF transaction.data = EmptyData THEN "Err:partial_no_data"
    ELSE IF transaction.signatures = <<>> THEN "Err:partial_no_signatures"
    ELSE IF transaction.recent_blockhash = "" THEN "Err:partial_no_blockhash"
    ELSE IF transaction.fee_payer = "" THEN "Err:partial_no_fee_payer"
    ELSE Ok

consistency_fully_signed(transaction) ==
    IF transaction.data = EmptyData THEN "Err:full_no_data"
    ELSE IF transaction.signatures = <<>> THEN "Err:full_no_signatures"
    ELSE IF transaction.recent_blockhash = "" THEN "Err:full_no_blockhash"
    ELSE IF transaction.fee_payer = "" THEN "Err:full_no_fee_payer"
    ELSE Ok

validate_transaction_state_consistency(transaction) ==
    CASE transaction.state = "Draft" -> consistency_draft(transaction)
      [] transaction.state = "Compiled" -> consistency_compiled(transaction)
      [] transaction.state = "PartiallySigned" -> consistency_partially_signed(transaction)
      [] transaction.state = "FullySigned" -> consistency_fully_signed(transaction)
      [] OTHER -> "Err:unspecified"

\* A permission table that lets a partially signed transaction be submitted
operation_allowed_submit_too_early(state, operation) ==
    IF state = "Draft" /\ operation \in {"compile", "add_instruction", "remove_instruction"}
        THEN Ok
    ELSE IF state = "Compiled" /\ operation \in {"sign", "estimate", "simulate"} THEN Ok
    ELSE IF state = "PartiallySigned" /\ operation \in {"sign", "estimate", "simulate", "submit"}
        THEN Ok
    ELSE IF state = "FullySigned" /\ operation \in {"submit", "estimate", "simulate"} THEN Ok
    ELSE IF state = "Unspecified" THEN "Err:unspecified"
    ELSE "Err:not_allowed"

validate_operation_allowed_for_state(state, operation) ==
    IF state = "Draft" /\ operation \in {"compile", "add_instruction", "remove_instruction"}
        THEN Ok
    ELSE IF state = "Compiled" /\ operation \in {"sign", "estimate", "simulate"} THEN Ok
    ELSE IF state = "PartiallySigned" /\ operation \in {"sign", "estimate", "simulate"} THEN Ok
    ELSE IF state = "FullySigned" /\ operation \in {"submit", "estimate", "simulate"} THEN Ok
    ELSE IF state = "Unspecified" THEN "Err:unspecified"
    ELSE "Err:not_allowed"

(***************************************************************************)
(* Identities, instructions and messages                                   *)
(***************************************************************************)
Pubkeys == {"K1", "K2", "K3"}
ProgramId == "P"
BadString == "bad"                  \* a string that is no base58 public key / hash

IsPubkey(s) == s \in Pubkeys \cup {ProgramId}
Blockhashes == {"H1", "H2"}
IsHash(s) == s \in Blockhashes

Rank(k) == CASE k = "K1" -> 1 [] k = "K2" -> 2 [] k = "K3" -> 3 [] OTHER -> 4

Meta(k, s, w) == [pubkey |-> k, is_signer |-> s, is_writable |-> w]
\* short_vec: the length prefix of a serialised vector is at most 16 bits
ShortVecMax == 65535

\* data_len is the length of the instruction's data bytes
Instr(metas) == [program_id |-> ProgramId, accounts |-> metas, data_len |-> 0]

\* The instructions requests are built from: a transfer (signer pays a
\* non-signer), a two-signer approval, a read of one account, an instruction
\* naming a malformed public key, and one whose data is longer than a
\* serialised vector can be.
Transfer(a, b) == Instr(<<Meta(a, TRUE, TRUE), Meta(b, FALSE, TRUE)>>)
Approve(a, b) == Instr(<<Meta(a, TRUE, TRUE), Meta(b, TRUE, FALSE)>>)
Read(a) == Instr(<<Meta(a, FALSE, FALSE)>>)
Malformed == Instr(<<Meta(BadString, TRUE, TRUE)>>)
Oversized == [Read("K1") EXCEPT !.data_len = ShortVecMax + 1]

Instructions ==
    {Transfer("K1", "K2"), Transfer("K2", "K1"), Approve("K1", "K2"),
     Read("K3"), Read("K1"), Malformed, Oversized}

MaxInstr == 1

RECURSIVE SeqsUpTo(_, _)
SeqsUpTo(S, n) ==
    IF n = 0 THEN {<<>>}
    ELSE LET shorter == SeqsUpTo(S, n - 1)
         IN shorter \cup {Append(q, x) : q \in {r \in shorter : Len(r) = n - 1}, x \in S}

InstructionLists == SeqsUpTo(Instructions, MaxInstr)

Range(q) == {q[i] : i \in 1..Len(q)}

RECURSIVE SortedSeq(_)
SortedSeq(S) ==
    IF S = {} THEN <<>>
    ELSE LET m == CHOOSE x \in S : \A y \in S : Rank(x) <= Rank(y)
         IN <<m>> \o SortedSeq(S \ {m})

\* conversion.rs: every program id and account key must parse
proto_instruction_to_sdk_ok(ix) ==
    /\ IsPubkey(ix.program_id)
    /\ \A i \in 1..Len(ix.accounts) : IsPubkey(ix.accounts[i].pubkey)

\* Message::new_with_blockhash: accounts are deduplicated, their signer and
\* writable flags OR-ed over all occurrences, the fee payer is a writable
\* signer placed first, then writable signers, read-only signers, writable
\* non-signers and read-only non-signers.
MessageKeys(instrs, payer) ==
    {payer} \cup {instrs[i].program_id : i \in 1..Len(instrs)}
            \cup UNION {{instrs[i].accounts[j].pubkey : j \in 1..Len(instrs[i].accounts)} :
                          i \in 1..Len(instrs)}

KeyIsSigner(instrs, payer, k) ==
    \/ k = payer
    \/ \E i \in 1..Len(instrs) : \E j \in 1..Len(instrs[i].accounts) :
          instrs[i].accounts[j].pubkey = k /\ instrs[i].accounts[j].is_signer

KeyIsWritable(instrs, payer, k) ==
    \/ k = payer
    \/ \E i \in 1..Len(instrs) : \E j \in 1..Len(instrs[i].accounts) :
          instrs[i].accounts[j].pubkey = k /\ instrs[i].accounts[j].is_writable

new_with_blockhash(instrs, payer, blockhash) ==
    LET keys == MessageKeys(instrs, payer) \ {payer}
        ws == {k \in keys : KeyIsSigner(instrs, payer, k) /\ KeyIsWritable(instrs, payer, k)}
        rs == {k \in keys : KeyIsSigner(instrs, payer, k) /\ ~KeyIsWritable(instrs, payer, k)}
        wn == {k \in keys : ~KeyIsSigner(instrs, payer, k) /\ KeyIsWritable(instrs, payer, k)}
        rn == {k \in keys : ~KeyIsSigner(instrs, payer, k) /\ ~KeyIsWritable(instrs, payer, k)}
    IN [num_required_signatures |-> 1 + Cardinality(ws) + Cardinality(rs),
        num_readonly_signed_accounts |-> Cardinality(rs),
        num_readonly_unsigned_accounts |-> Cardinality(rn),
        account_keys |-> <<payer>> \o SortedSeq(ws) \o SortedSeq(rs)
                            \o SortedSeq(wn) \o SortedSeq(rn),
        recent_blockhash |-> blockhash,
        num_instructions |-> Len(instrs)]

(***************************************************************************)
(* Signatures, transactions and the transport encoding of data             *)
(***************************************************************************)
DefaultSignature == [signer |-> "default"]          \* Signature::default(), 64 zero bytes
GarbledSignature == [signer |-> "garbled"]          \* 64 bytes that were never a signature
sign_message(pubkey, message) == [signer |-> pubkey, message |-> message]
SignatureToString(sig) == [b58 |-> sig]             \* Signature::to_string
CraftedSignatureString == [b58 |-> GarbledSignature]

\* SolanaTransaction::new_unsigned: one default slot per required signer
new_unsigned(message) ==
    [signatures |-> [i \in 1..message.num_required_signatures |-> DefaultSignature],
     message |-> message]

\* bs58(bincode(message)) and bs58(bincode(transaction)); a transaction is
\* serialised as its signature vector followed by its message.
EncodeMessage(message) == [fmt |-> "message", message |-> message]
EncodeTransaction(t) == [fmt |-> "transaction", signatures |-> t.signatures,
                         message |-> t.message]
GarbageData == [fmt |-> "garbage"]                  \* not base58 at all

DecodeErr == [ok |-> FALSE]

\* A message read out of bytes that were written as something else.
GarbledKey == "garbled"
ZeroHash == "zero"
GarbledMessage(nreq, keys) ==
    [num_required_signatures |-> nreq,
     num_readonly_signed_accounts |-> 0,
     num_readonly_unsigned_accounts |-> 0,
     account_keys |-> keys,
     recent_blockhash |-> ZeroHash,
     num_instructions |-> 0]

\* bs58::decode followed by bincode::deserialize::<Message>.  bincode accepts
\* trailing bytes.  Bytes written as a transaction start with the signature
\* count and the first signature: the count is read as
\* num_required_signatures and the signature bytes as the rest of the header,
\* the account key count and the keys.  With a default (all zero) first
\* signature this gives a message without account keys; with a real
\* signature the outcome depends on the signature bytes: the read fails or
\* gives a message whose keys are pieces of the signature.
DeserializeMessage(data) ==
    CASE data.fmt = "message" -> {[ok |-> TRUE, message |-> data.message]}
      [] data.fmt = "transaction" ->
            IF Len(data.signatures) = 0
                THEN {DecodeErr}
            ELSE IF data.signatures[1] = DefaultSignature
                THEN {[ok |-> TRUE, message |-> GarbledMessage(Len(data.signatures), <<>>)]}
            ELSE {DecodeErr,
                  [ok |-> TRUE, message |-> GarbledMessage(Len(data.signatures), <<>>)],
                  [ok |-> TRUE,
                   message |-> GarbledMessage(Len(data.signatures), <<GarbledKey>>)]}
      [] OTHER -> {DecodeErr}

\* bs58::decode followed by bincode::deserialize::<SolanaTransaction>.  Bytes
\* written as a message start with the three header bytes: the first is read
\* as the signature count and the following bytes (header, key count, keys)
\* as the signatures, none of which is all zero; what follows is read as the
\* message, or the read fails.
DeserializeTransaction(data) ==
    CASE data.fmt = "transaction" ->
            {[ok |-> TRUE, transaction |-> [signatures |-> data.signatures,
                                            message |-> data.message]]}
      [] data.fmt = "message" ->
            {DecodeErr,
             [ok |-> TRUE,
              transaction |->
                 [signatures |-> [i \in 1..data.message.num_required_signatures
                                     |-> GarbledSignature],
                  message |-> GarbledMessage(0, <<>>)]]}
      [] OTHER -> {DecodeErr}

\* Iterator::position
RECURSIVE PositionFrom(_, _, _)
PositionFrom(q, x, i) ==
    IF i > Len(q) THEN 0
    ELSE IF q[i] = x THEN i
    ELSE PositionFrom(q, x, i + 1)

position(q, x) == PositionFrom(q, x, 1)

RECURSIVE SelectNonDefault(_)
SelectNonDefault(sigs) ==
    IF sigs = <<>> THEN <<>>
    ELSE (IF Head(sigs) # DefaultSignature THEN <<SignatureToString(Head(sigs))>> ELSE <<>>)
         \o SelectNonDefault(Tail(sigs))

(***************************************************************************)
(* service_impl.rs: the request handlers.  Each handler is an operator     *)
(* from the request and the outcomes of its network calls to the response: *)
(* code is the gRPC status ("OK" for a response), net lists the network    *)
(* calls made, in order.                                                   *)
(***************************************************************************)
Reply(code, msg, net) == [code |-> code, msg |-> msg, net |-> net]
Success(net, body) == [code |-> "OK", msg |-> "", net |-> net, body |-> body]

(***************************************************************************)
(* u64 values are sequences of eight 8-bit limbs, least significant first, *)
(* so that products beyond 64 bits can be computed exactly.                *)
(***************************************************************************)
LimbBase == 2 ^ 8
U64Limbs == 64 \div 8

RECURSIVE LimbsOf(_, _)
LimbsOf(n, count) ==
    IF count = 0 THEN <<>> ELSE <<n % LimbBase>> \o LimbsOf(n \div LimbBase, count - 1)

U64(n) == LimbsOf(n, U64Limbs)                      \* n below 2^31
U64Pow256(k) == [i \in 1..U64Limbs |-> IF i = k + 1 THEN 1 ELSE 0]    \* 256^k

RECURSIVE ConvSum(_, _, _, _)
ConvSum(a, b, k, i) ==          \* sum of a[i] * b[k + 2 - i] over the valid i
    IF i > U64Limbs THEN 0
    ELSE (IF k + 2 - i >= 1 /\ k + 2 - i <= U64Limbs THEN a[i] * b[k + 2 - i] ELSE 0)
         + ConvSum(a, b, k, i + 1)

RECURSIVE MulLimbs(_, _, _, _)
MulLimbs(a, b, k, carry) ==     \* limbs k .. 2 * U64Limbs - 1 of the full product
    IF k = 2 * U64Limbs THEN <<>>
    ELSE LET t == ConvSum(a, b, k, 1) + carry
         IN <<t % LimbBase>> \o MulLimbs(a, b, k + 1, t \div LimbBase)

FullProduct(a, b) == MulLimbs(a, b, 0, 0)

\* a * b on u64: the wrapped value and whether the exact product exceeds 64 bits
overflowing_mul(a, b) ==
    LET product == FullProduct(a, b)
    IN [value |-> SubSeq(product, 1, U64Limbs),
        overflow |-> \E i \in (U64Limbs + 1)..(2 * U64Limbs) : product[i] # 0]

IsZero(a) == \A i \in 1..Len(a) : a[i] = 0

\* min(a, cap) as a number, for a cap below 2^24
MinWith(a, cap) ==
    IF \E i \in 4..Len(a) : a[i] # 0 THEN cap
    ELSE LET n == a[1] + LimbBase * a[2] + LimbBase * LimbBase * a[3]
         IN IF n < cap THEN n ELSE cap

\* bincode::serialize of the compiled message: it fails when a vector of the
\* message (the instructions, or the data of one of them) is longer than
\* its length prefix can say
serialize_ok(instrs) ==
    /\ Len(instrs) <= ShortVecMax
    /\ \A i \in 1..Len(instrs) : instrs[i].data_len <= ShortVecMax

NoTransaction == [state |-> "Unspecified", instructions |-> <<>>, data |-> EmptyData,
                  signatures |-> <<>>, fee_payer |-> "", recent_blockhash |-> "",
                  compute_unit_price |-> U64(0)]

\* A compile that prefers the blockhash of the network to the supplied one
compile_transaction_fetches_always(present, transaction, fee_payer, recent_blockhash, fetched) ==
    LET current_state == transaction.state IN
    IF ~present THEN Reply("InvalidArgument", "transaction_required", <<>>)
    ELSE IF validate_operation_allowed_for_state(current_state, "compile") # Ok
        THEN Reply("FailedPrecondition", "operation_not_allowed", <<>>)
    ELSE IF validate_transaction_state_consistency(transaction) # Ok
        THEN Reply("InvalidArgument", "inconsistent_state", <<>>)
    ELSE IF transaction.instructions = <<>>
        THEN Reply("InvalidArgument", "no_instructions", <<>>)
    ELSE IF fee_payer = "" THEN Reply("InvalidArgument", "fee_payer_required", <<>>)
    ELSE IF \E i \in 1..Len(transaction.instructions) :
                ~proto_instruction_to_sdk_ok(transaction.instructions[i])
        THEN Reply("InvalidArgument", "invalid_instruction", <<>>)
    ELSE IF ~IsPubkey(fee_payer) THEN Reply("InvalidArgument", "invalid_fee_payer", <<>>)
    ELSE IF recent_blockhash = "" /\ fetched = "Err"
        THEN Reply("Internal", "blockhash_fetch_failed", <<"get_latest_blockhash">>)
    ELSE IF recent_blockhash # "" /\ ~IsHash(recent_blockhash)
        THEN Reply("InvalidArgument", "invalid_blockhash", <<>>)
    ELSE
        LET net == IF recent_blockhash = "" THEN <<"get_latest_blockhash">> ELSE <<>>
            hash == IF fetched # "Err" THEN fetched ELSE recent_blockhash
            message == new_with_blockhash(transaction.instructions, fee_payer, hash)
            compiled == [transaction EXCEPT !.data = EncodeMessage(message),
                                            !.state = "Compiled",
                                            !.fee_payer = fee_payer,
                                            !.recent_blockhash = hash]
        IN IF ~serialize_ok(transaction.instructions)
               THEN Reply("Internal", "serialization_failed", net)
           ELSE IF validate_state_transition(current_state, "Compiled") # Ok
               THEN Reply("Internal", "state_transition", net)
           ELSE IF validate_transaction_state_consistency(compiled) # Ok
               THEN Reply("Internal", "compiled_inconsistent", net)
           ELSE Success(net, [transaction |-> compiled])

compile_transaction(present, transaction, fee_payer, recent_blockhash, fetched) ==
    LET current_state == transaction.state IN
    IF ~present THEN Reply("InvalidArgument", "transaction_required", <<>>)
    ELSE IF validate_operation_allowed_for_state(current_state, "compile") # Ok
        THEN Reply("FailedPrecondition", "operation_not_allowed", <<>>)
    ELSE IF validate_transaction_state_consistency(transaction) # Ok
        THEN Reply("InvalidArgument", "inconsistent_state", <<>>)
    ELSE IF transaction.instructions = <<>>
        THEN Reply("InvalidArgument", "no_instructions", <<>>)
    ELSE IF fee_payer = "" THEN Reply("InvalidArgument", "fee_payer_required", <<>>)
    ELSE IF \E i \in 1..Len(transaction.instructions) :
                ~proto_instruction_to_sdk_ok(transaction.instructions[i])
        THEN Reply("InvalidArgument", "invalid_instruction", <<>>)
    ELSE IF ~IsPubkey(fee_payer) THEN Reply("InvalidArgument", "invalid_fee_payer", <<>>)
    ELSE IF recent_blockhash = "" /\ fetched = "Err"
        THEN Reply("Internal", "blockhash_fetch_failed", <<"get_latest_blockhash">>)
    ELSE IF recent_blockhash # "" /\ ~IsHash(recent_blockhash)
        THEN Reply("InvalidArgument", "invalid_blockhash", <<>>)
    ELSE
        LET net == IF recent_blockhash = "" THEN <<"get_latest_blockhash">> ELSE <<>>
            hash == IF recent_blockhash = "" THEN fetched ELSE recent_blockhash
            message == new_with_blockhash(transaction.instructions, fee_payer, hash)
            compiled == [transaction EXCEPT !.data = EncodeMessage(message),
                                            !.state = "Compiled",
                                            !.fee_payer = fee_payer,
                                            !.recent_blockhash = hash]
        IN IF ~serialize_ok(transaction.instructions)
               THEN Reply("Internal", "serialization_failed", net)
           ELSE IF validate_state_transition(current_state, "Compiled") # Ok
               THEN Reply("Internal", "state_transition", net)
           ELSE IF validate_transaction_state_consistency(compiled) # Ok
               THEN Reply("Internal", "compiled_inconsistent", net)
           ELSE Success(net, [transaction |-> compiled])

\* Private key strings of a sign request
KeypairString(k) == [kind |-> "keypair", pubkey |-> k]
PrivateKeyStrings ==
    {KeypairString(k) : k \in Pubkeys}
    \cup {[kind |-> "not_base58"], [kind |-> "wrong_length"], [kind |-> "invalid_keypair"]}

\* The first private key, in request order, that does not parse (0 if all do)
RECURSIVE FirstBadKey(_, _)
FirstBadKey(private_keys, i) ==
    IF i > Len(private_keys) THEN 0
    ELSE IF private_keys[i].kind # "keypair" THEN i
    ELSE FirstBadKey(private_keys, i + 1)

\* A signing loop that gives up at the first key matching no account
RECURSIVE ApplyKeypairs_stops_at_unmatched(_, _, _)
ApplyKeypairs_stops_at_unmatched(st, message, keypairs) ==
    IF keypairs = <<>> \/ st.panicked THEN st
    ELSE LET pubkey == Head(keypairs).pubkey
             account_index == position(message.account_keys, pubkey)
         IN IF account_index = 0 THEN st
            ELSE IF account_index > Len(st.signatures)
                THEN [st EXCEPT !.panicked = TRUE]
            ELSE ApplyKeypairs_stops_at_unmatched(
                    [st EXCEPT !.signatures[account_index] = sign_message(pubkey, message),
                               !.signatures_applied = @ + 1],
                    message, Tail(keypairs))

\* The signing loop: st is [signatures, signatures_applied, panicked].  Writing
\* signatures[account_index] past the end of the vector panics.
RECURSIVE ApplyKeypairs(_, _, _)
ApplyKeypairs(st, message, keypairs) ==
    IF keypairs = <<>> \/ st.panicked THEN st
    ELSE LET pubkey == Head(keypairs).pubkey
             account_index == position(message.account_keys, pubkey)
         IN IF account_index = 0
                THEN ApplyKeypairs(st, message, Tail(keypairs))
            ELSE IF account_index > Len(st.signatures)
                THEN [st EXCEPT !.panicked = TRUE]
            ELSE ApplyKeypairs(
                    [st EXCEPT !.signatures[account_index] = sign_message(pubkey, message),
                               !.signatures_applied = @ + 1],
                    message, Tail(keypairs))

\* A completeness test that needs one signature more than the message requires
new_state_one_more(provided_signatures, required_signatures) ==
    IF provided_signatures > required_signatures THEN "FullySigned" ELSE "PartiallySigned"

\* The state a signed transaction gets from its signature count
new_state(provided_signatures, required_signatures) ==
    IF provided_signatures >= required_signatures THEN "FullySigned" ELSE "PartiallySigned"

\* A signing call that counts one signature per key applied, not per slot filled
sign_transaction_counts_keys(present, transaction, signing_method, decoded) ==
    LET current_state == transaction.state IN
    IF ~present THEN Reply("InvalidArgument", "transaction_required", <<>>)
    ELSE IF validate_operation_allowed_for_state(current_state, "sign") # Ok
        THEN Reply("FailedPrecondition", "operation_not_allowed", <<>>)
    ELSE IF validate_transaction_state_consistency(transaction) # Ok
        THEN Reply("InvalidArgument", "inconsistent_state", <<>>)
    ELSE IF transaction.data = EmptyData
        THEN Reply("InvalidArgument", "not_compiled", <<>>)
    ELSE IF ~decoded.ok THEN Reply("InvalidArgument", "decode_failed", <<>>)
    ELSE IF signing_method.method = "none"
        THEN Reply("InvalidArgument", "signing_method_required", <<>>)
    ELSE IF signing_method.method = "seeds"
        THEN Reply("Unimplemented", "seeds", <<>>)
    ELSE IF FirstBadKey(signing_method.private_keys, 1) # 0
        THEN Reply("InvalidArgument",
                   signing_method.private_keys[FirstBadKey(signing_method.private_keys, 1)].kind,
                   <<>>)
    ELSE
        LET message == decoded.message
            start == [signatures |-> new_unsigned(message).signatures,
                      signatures_applied |-> 0, panicked |-> FALSE]
            st == ApplyKeypairs(start, message, signing_method.private_keys)
            solana_transaction == [signatures |-> st.signatures, message |-> message]
            signatures == SelectNonDefault(st.signatures)
            required_signatures == message.num_required_signatures
            provided_signatures == st.signatures_applied
            next_state == new_state(provided_signatures, required_signatures)
            signed == [transaction EXCEPT !.signatures = signatures,
                                          !.state = next_state,
                                          !.data = EncodeTransaction(solana_transaction)]
        IN IF st.panicked THEN Reply("Panic", "index_out_of_bounds", <<>>)
           ELSE IF st.signatures_applied = 0
               THEN Reply("InvalidArgument", "no_matching_accounts", <<>>)
           ELSE IF validate_state_transition(current_state, next_state) # Ok
               THEN Reply("Internal", "state_transition", <<>>)
           ELSE Success(<<>>, [transaction |-> signed])

\* A signing call that leaves the state of the transaction as it was
sign_transaction_keeps_state(present, transaction, signing_method, decoded) ==
    LET current_state == transaction.state IN
    IF ~present THEN Reply("InvalidArgument", "transaction_required", <<>>)
    ELSE IF validate_operation_allowed_for_state(current_state, "sign") # Ok
        THEN Reply("FailedPrecondition", "operation_not_allowed", <<>>)
    ELSE IF validate_transaction_state_consistency(transaction) # Ok
        THEN Reply("InvalidArgument", "inconsistent_state", <<>>)
    ELSE IF transaction.data = EmptyData
        THEN Reply("InvalidArgument", "not_compiled", <<>>)
    ELSE IF ~decoded.ok THEN Reply("InvalidArgument", "decode_failed", <<>>)
    ELSE IF signing_method.method = "none"
        THEN Reply("InvalidArgument", "signing_method_required", <<>>)
    ELSE IF signing_method.method = "seeds"
        THEN Reply("Unimplemented", "seeds", <<>>)
    ELSE IF FirstBadKey(signing_method.private_keys, 1) # 0
        THEN Reply("InvalidArgument",
                   signing_method.private_keys[FirstBadKey(signing_method.private_keys, 1)].kind,
                   <<>>)
    ELSE
        LET message == decoded.message
            start == [signatures |-> new_unsigned(message).signatures,
                      signatures_applied |-> 0, panicked |-> FALSE]
            st == ApplyKeypairs(start, message, signing_method.private_keys)
            solana_transaction == [signatures |-> st.signatures, message |-> message]
            signatures == SelectNonDefault(st.signatures)
            required_signatures == message.num_required_signatures
            provided_signatures == Len(signatures)
            next_state == new_state(provided_signatures, required_signatures)
            signed == [transaction EXCEPT !.signatures = signatures,
                                          !.state = current_state,
                                          !.data = EncodeTransaction(solana_transaction)]
        IN IF st.panicked THEN Reply("Panic", "index_out_of_bounds", <<>>)
           ELSE IF st.signatures_applied = 0
               THEN Reply("InvalidArgument", "no_matching_accounts", <<>>)
           ELSE Success(<<>>, [transaction |-> signed])

\* decoded is the outcome of reading transaction.data as a Message
sign_transaction(present, transaction, signing_method, decoded) ==
    LET current_state == transaction.state IN
    IF ~present THEN Reply("InvalidArgument", "transaction_required", <<>>)
    ELSE IF validate_operation_allowed_for_state(current_state, "sign") # Ok
        THEN Reply("FailedPrecondition", "operation_not_allowed", <<>>)
    ELSE IF validate_transaction_state_consistency(transaction) # Ok
        THEN Reply("InvalidArgument", "inconsistent_state", <<>>)
    ELSE IF transaction.data = EmptyData
        THEN Reply("InvalidArgument", "not_compiled", <<>>)
    ELSE IF ~decoded.ok THEN Reply("InvalidArgument", "decode_failed", <<>>)
    ELSE IF signing_method.method = "none"
        THEN Reply("InvalidArgument", "signing_method_required", <<>>)
    ELSE IF signing_method.method = "seeds"
        THEN Reply("Unimplemented", "seeds", <<>>)
    ELSE IF FirstBadKey(signing_method.private_keys, 1) # 0
        THEN Reply("InvalidArgument",
                   signing_method.private_keys[FirstBadKey(signing_method.private_keys, 1)].kind,
                   <<>>)
    ELSE
        LET message == decoded.message
            start == [signatures |-> new_unsigned(message).signatures,
                      signatures_applied |-> 0, panicked |-> FALSE]
            st == ApplyKeypairs(start, message, signing_method.private_keys)
            solana_transaction == [signatures |-> st.signatures, message |-> message]
            signatures == SelectNonDefault(st.signatures)
            required_signatures == message.num_required_signatures
            provided_signatures == Len(signatures)
            next_state == new_state(provided_signatures, required_signatures)
            signed == [transaction EXCEPT !.signatures = signatures,
                                          !.state = next_state,
                                          !.data = EncodeTransaction(solana_transaction)]
        IN IF st.panicked THEN Reply("Panic", "index_out_of_bounds", <<>>)
           ELSE IF st.signatures_applied = 0
               THEN Reply("InvalidArgument", "no_matching_accounts", <<>>)
           ELSE IF validate_state_transition(current_state, next_state) # Ok
               THEN Reply("Internal", "state_transition", <<>>)
           ELSE Success(<<>>, [transaction |-> signed])

(***************************************************************************)
(* Client errors of a failed send and their two classifications            *)
(***************************************************************************)
PlainTransactionErrors ==
    {"InsufficientFundsForFee", "InsufficientFundsForRent", "SignatureFailure",
     "MissingSignatureForFee", "WouldExceedMaxBlockCostLimit",
     "WouldExceedMaxAccountCostLimit", "WouldExceedMaxVoteCostLimit",
     "WouldExceedAccountDataBlockLimit", "WouldExceedAccountDataTotalLimit",
     "TooManyAccountLocks", "ClusterMaintenance", "AlreadyProcessed", "AccountNotFound",
     "ProgramAccountNotFound", "InvalidAccountForFee", "AccountInUse", "AccountLoadedTwice",
     "AccountBorrowOutstanding", "BlockhashNotFound", "CallChainTooDeep",
     "InvalidAccountIndex", "InvalidProgramForExecution", "SanitizeFailure",
     "UnsupportedVersion", "InvalidWritableAccount", "AddressLookupTableNotFound",
     "InvalidAddressLookupTableOwner", "InvalidAddressLookupTableData",
     "InvalidAddressLookupTableIndex", "InvalidRentPayingAccount", "DuplicateInstruction",
     "MaxLoadedAccountsDataSizeExceeded", "InvalidLoadedAccountsDataSizeLimit",
     "ResanitizationNeeded", "ProgramExecutionTemporarilyRestricted",
     "UnbalancedTransaction"}

InstructionErrors ==
    {"InsufficientFunds", "MissingRequiredSignature", "ComputationalBudgetExceeded",
     "Custom", "InvalidArgument", "AccountBorrowFailed"}

TransactionErrors ==
    {[variant |-> v, instruction_error |-> ""] : v \in PlainTransactionErrors}
    \cup {[variant |-> "InstructionError", instruction_error |-> ie] : ie \in InstructionErrors}

NoTransactionError == [variant |-> "None", instruction_error |-> ""]

\* The words classify_by_message looks for in the rendered message
MessageWords == {"insufficient", "fund", "balance", "invalid", "signature",
                 "network", "connection", "timeout"}

ClientError(kind, err, words) == [kind |-> kind, err |-> err, words |-> words]

ClientErrors ==
    {ClientError("TransactionError", te, {}) : te \in TransactionErrors}
    \cup {ClientError("PreflightFailure", te, {}) :
              te \in TransactionErrors \cup {NoTransactionError}}
    \cup {ClientError(k, NoTransactionError, {}) :
              k \in {"NodeUnhealthy", "Io", "ReqwestTimeout", "ReqwestConnect",
                     "ReqwestOther", "SigningError", "SerdeJson", "RpcParseError",
                     "RpcOther"}}
    \cup {ClientError("Custom", NoTransactionError, w) :
              w \in {x \in SUBSET MessageWords : Cardinality(x) <= 2}}

\* service_impl.rs, the legacy SubmissionResult classification
classify_instruction_error_result(instruction_error) ==
    CASE instruction_error = "InsufficientFunds" -> "FailedInsufficientFunds"
      [] instruction_error = "MissingRequiredSignature" -> "FailedInvalidSignature"
      [] instruction_error = "ComputationalBudgetExceeded" -> "FailedNetworkError"
      [] instruction_error = "Custom" -> "FailedValidation"
      [] OTHER -> "FailedValidation"

classify_transaction_error_result(te) ==
    CASE te.variant \in {"InsufficientFundsForFee", "InsufficientFundsForRent"}
            -> "FailedInsufficientFunds"
      [] te.variant \in {"SignatureFailure", "MissingSignatureForFee"}
            -> "FailedInvalidSignature"
      [] te.variant \in {"WouldExceedMaxBlockCostLimit", "WouldExceedMaxAccountCostLimit",
                         "WouldExceedMaxVoteCostLimit", "WouldExceedAccountDataBlockLimit",
                         "WouldExceedAccountDataTotalLimit", "TooManyAccountLocks",
                         "ClusterMaintenance"}
            -> "FailedNetworkError"
      [] te.variant = "AlreadyProcessed" -> "Submitted"
      [] te.variant = "InstructionError"
            -> classify_instruction_error_result(te.instruction_error)
      [] OTHER -> "FailedValidation"

classify_by_message(words) ==
    IF "insufficient" \in words /\ ("fund" \in words \/ "balance" \in words)
        THEN "FailedInsufficientFunds"
    ELSE IF "invalid" \in words /\ "signature" \in words THEN "FailedInvalidSignature"
    ELSE IF "network" \in words \/ "connection" \in words \/ "timeout" \in words
        THEN "FailedNetworkError"
    ELSE "FailedValidation"

classify_submission_error(error) ==
    CASE error.kind = "TransactionError" -> classify_transaction_error_result(error.err)
      [] error.kind = "PreflightFailure" ->
            IF error.err = NoTransactionError THEN "FailedValidation"
            ELSE classify_transaction_error_result(error.err)
      [] error.kind = "NodeUnhealthy" -> "FailedNetworkError"
      [] error.kind = "Io" -> "Indeterminate"
      [] error.kind \in {"ReqwestTimeout", "ReqwestConnect", "ReqwestOther"} -> "Indeterminate"
      [] error.kind = "SigningError" -> "FailedInvalidSignature"
      [] error.kind \in {"SerdeJson", "RpcParseError"} -> "FailedValidation"
      [] error.kind = "RpcOther" -> "Indeterminate"
      [] OTHER -> classify_by_message(error.words)

\* error_builder.rs, the structured classification
classify_instruction_error(instruction_error) ==
    CASE instruction_error = "InsufficientFunds" -> "InsufficientFunds"
      [] instruction_error = "MissingRequiredSignature" -> "SignatureVerificationFailed"
      [] instruction_error = "ComputationalBudgetExceeded" -> "WouldExceedBlockLimit"
      [] instruction_error = "Custom" -> "ProgramError"
      [] OTHER -> "InstructionError"

\* A classification that takes a rent shortfall for an account error
classify_transaction_error_rent_as_account(te) ==
    CASE te.variant = "InsufficientFundsForFee" -> "InsufficientFunds"
      [] te.variant = "InsufficientFundsForRent" -> "InvalidAccount"
      [] te.variant \in {"SignatureFailure", "MissingSignatureForFee"}
            -> "SignatureVerificationFailed"
      [] te.variant \in {"WouldExceedMaxBlockCostLimit", "WouldExceedMaxAccountCostLimit",
                         "WouldExceedMaxVoteCostLimit", "WouldExceedAccountDataBlockLimit",
                         "WouldExceedAccountDataTotalLimit"}
            -> "WouldExceedBlockLimit"
      [] te.variant = "TooManyAccountLocks" -> "AccountInUse"
      [] te.variant = "ClusterMaintenance" -> "TransientSimulationFailure"
      [] te.variant \in {"AccountNotFound", "ProgramAccountNotFound"} -> "AccountNotFound"
      [] te.variant \in {"InvalidAccountForFee", "AccountLoadedTwice",
                         "AccountBorrowOutstanding", "InvalidWritableAccount",
                         "InvalidRentPayingAccount"}
            -> "InvalidAccount"
      [] te.variant = "BlockhashNotFound" -> "BlockhashNotFound"
      [] te.variant = "InstructionError" -> classify_instruction_error(te.instruction_error)
      [] te.variant = "AccountInUse" -> "AccountInUse"
      [] OTHER -> "InvalidTransaction"

classify_transaction_error(te) ==
    CASE te.variant \in {"InsufficientFundsForFee", "InsufficientFundsForRent"}
            -> "InsufficientFunds"
      [] te.variant \in {"SignatureFailure", "MissingSignatureForFee"}
            -> "SignatureVerificationFailed"
      [] te.variant \in {"WouldExceedMaxBlockCostLimit", "WouldExceedMaxAccountCostLimit",
                         "WouldExceedMaxVoteCostLimit", "WouldExceedAccountDataBlockLimit",
                         "WouldExceedAccountDataTotalLimit"}
            -> "WouldExceedBlockLimit"
      [] te.variant = "TooManyAccountLocks" -> "AccountInUse"
      [] te.variant = "ClusterMaintenance" -> "TransientSimulationFailure"
      [] te.variant \in {"AccountNotFound", "ProgramAccountNotFound"} -> "AccountNotFound"
      [] te.variant \in {"InvalidAccountForFee", "AccountLoadedTwice",
                         "AccountBorrowOutstanding", "InvalidWritableAccount",
                         "InvalidRentPayingAccount"}
            -> "InvalidAccount"
      [] te.variant = "BlockhashNotFound" -> "BlockhashNotFound"
      [] te.variant = "InstructionError" -> classify_instruction_error(te.instruction_error)
      [] te.variant = "AccountInUse" -> "AccountInUse"
      [] OTHER -> "InvalidTransaction"

classify_error_with_certainty(client_error) ==
    CASE client_error.kind = "PreflightFailure" ->
            IF client_error.err # NoTransactionError
                THEN <<classify_transaction_error(client_error.err), "NotSubmitted">>
            ELSE <<"InvalidTransaction", "NotSubmitted">>
      [] client_error.kind = "TransactionError" ->
            <<classify_transaction_error(client_error.err), "NotSubmitted">>
      [] client_error.kind = "NodeUnhealthy" -> <<"NodeUnhealthy", "UnknownResolvable">>
      [] client_error.kind = "Io" -> <<"NetworkError", "UnknownResolvable">>
      [] client_error.kind = "ReqwestTimeout" -> <<"Timeout", "UnknownResolvable">>
      [] client_error.kind = "ReqwestConnect" -> <<"ConnectionFailed", "UnknownResolvable">>
      [] client_error.kind = "ReqwestOther" -> <<"RequestFailed", "UnknownResolvable">>
      [] client_error.kind = "SigningError" -> <<"InvalidSignature", "NotSubmitted">>
      [] client_error.kind \in {"SerdeJson", "RpcParseError"}
            -> <<"InvalidTransaction", "NotSubmitted">>
      [] client_error.kind = "RpcOther" -> <<"RpcError", "UnknownResolvable">>
      [] OTHER -> <<"Unknown", "Unknown">>

\* A retryability table that leaves out the failed HTTP request
determine_retryability_without_request_failed(code) ==
    code \in {"InsufficientFunds", "AccountInUse", "WouldExceedBlockLimit",
              "TransientSimulationFailure", "NetworkError", "Timeout", "NodeUnhealthy",
              "RateLimited", "RpcError", "ConnectionFailed"}

determine_retryability(code) ==
    code \in {"InsufficientFunds", "AccountInUse", "WouldExceedBlockLimit",
              "TransientSimulationFailure", "NetworkError", "Timeout", "NodeUnhealthy",
              "RateLimited", "RpcError", "ConnectionFailed", "RequestFailed"}

BlockhashValidityWindow == 150

\* A builder that never lets a preflight failure be retried
build_structured_error_preflight_final(client_error, transaction_blockhash, current_slot) ==
    LET classified == classify_error_with_certainty(client_error)
    IN [code |-> classified[1],
        retryable |-> /\ determine_retryability(classified[1])
                      /\ client_error.kind # "PreflightFailure",
        certainty |-> classified[2],
        blockhash |-> transaction_blockhash,
        blockhash_expiry_slot |-> current_slot + BlockhashValidityWindow]

build_structured_error(client_error, transaction_blockhash, current_slot) ==
    LET classified == classify_error_with_certainty(client_error)
    IN [code |-> classified[1],
        retryable |-> determine_retryability(classified[1]),
        certainty |-> classified[2],
        blockhash |-> transaction_blockhash,
        blockhash_expiry_slot |-> current_slot + BlockhashValidityWindow]

\* Outcomes of simulate_transaction_with_config: the call fails, or returns
\* units_consumed (None or a u64) and the simulated execution's error.
NoUnits == <<>>
SimulationFailed == [ok |-> FALSE]
SimulationResult(units, err) == [ok |-> TRUE, units_consumed |-> units, err |-> err]

PerInstructionUnits == 50000
MinComputeUnits == 200000
MaxComputeUnits == 1400000
BaseFeeLamports == 5000
PriorityFeeCap == 1000000
DefaultPriorityFee == 1000

\* A clamp without its upper end
clamp_from_below(n, lo, hi) == IF n < lo THEN lo ELSE n

\* u64::clamp
clamp(n, lo, hi) == IF n < lo THEN lo ELSE IF n > hi THEN hi ELSE n

\* decoded: outcome of reading data as a Message; simulation: outcome of the
\* simulation call; overflow_checks: whether the build traps on overflow.
estimate_transaction(present, transaction, decoded, simulation, overflow_checks) ==
    IF ~present THEN Reply("InvalidArgument", "transaction_required", <<>>)
    ELSE IF validate_operation_allowed_for_state(transaction.state, "estimate") # Ok
        THEN Reply("FailedPrecondition", "operation_not_allowed", <<>>)
    ELSE IF validate_transaction_state_consistency(transaction) # Ok
        THEN Reply("InvalidArgument", "inconsistent_state", <<>>)
    ELSE IF transaction.data = EmptyData
        THEN Reply("InvalidArgument", "not_compiled", <<>>)
    ELSE IF ~decoded.ok THEN Reply("InvalidArgument", "decode_failed", <<>>)
    ELSE
        LET net == <<"simulate_transaction">>
            fallback == U64(clamp(Len(transaction.instructions) * PerInstructionUnits,
                                  MinComputeUnits, MaxComputeUnits))
            compute_units ==
                IF simulation.ok /\ simulation.units_consumed # NoUnits
                                /\ ~IsZero(simulation.units_consumed)
                    THEN simulation.units_consumed
                ELSE fallback
            compute_unit_price == transaction.compute_unit_price
            product == overflowing_mul(compute_units, compute_unit_price)
            priority_fee ==
                IF ~IsZero(compute_unit_price)
                    THEN MinWith(product.value, PriorityFeeCap)
                ELSE DefaultPriorityFee
        IN IF ~IsZero(compute_unit_price) /\ overflow_checks /\ product.overflow
               THEN Reply("Panic", "multiply_overflow", net)
           ELSE Success(net, [compute_units |-> compute_units,
                              fee_lamports |-> BaseFeeLamports + priority_fee,
                              priority_fee |-> priority_fee,
                              simulated |-> new_unsigned(decoded.message)])

\* A simulation that runs whatever the consistency of the record
simulate_transaction_unvalidated(present, transaction, decoded, simulation) ==
    IF ~present THEN Reply("InvalidArgument", "transaction_required", <<>>)
    ELSE IF validate_operation_allowed_for_state(transaction.state, "simulate") # Ok
        THEN Reply("FailedPrecondition", "operation_not_allowed", <<>>)
    ELSE IF ~decoded.ok THEN Reply("InvalidArgument", "decode_failed", <<>>)
    ELSE
        LET net == <<"simulate_transaction">>
        IN Success(net, [success |-> simulation.ok /\ simulation.err = NoTransactionError,
                         error |-> NoTransactionError,
                         simulated |-> new_unsigned(decoded.message)])

simulate_transaction(present, transaction, decoded, simulation) ==
    IF ~present THEN Reply("InvalidArgument", "transaction_required", <<>>)
    ELSE IF validate_operation_allowed_for_state(transaction.state, "simulate") # Ok
        THEN Reply("FailedPrecondition", "operation_not_allowed", <<>>)
    ELSE IF validate_transaction_state_consistency(transaction) # Ok
        THEN Reply("InvalidArgument", "inconsistent_state", <<>>)
    ELSE IF transaction.data = EmptyData
        THEN Reply("InvalidArgument", "not_compiled", <<>>)
    ELSE IF ~decoded.ok THEN Reply("InvalidArgument", "decode_failed", <<>>)
    ELSE
        LET net == <<"simulate_transaction">>
        IN IF simulation.ok
               THEN Success(net, [success |-> simulation.err = NoTransactionError,
                                  error |-> simulation.err,
                                  simulated |-> new_unsigned(decoded.message)])
           ELSE Success(net, [success |-> FALSE,
                              error |-> [variant |-> "SimulationFailed",
                                         instruction_error |-> ""],
                              simulated |-> new_unsigned(decoded.message)])

\* decoded: outcome of reading data as a SolanaTransaction; sent: outcome of
\* send_transaction_with_config; slot: outcome of get_slot.
SlotErr == [ok |-> FALSE]
SlotOk(n) == [ok |-> TRUE, slot |-> n]
NoSignatureString == [b58 |-> [signer |-> "none"]]  \* the empty string
SendOk == [ok |-> TRUE]
SendErr(e) == [ok |-> FALSE, error |-> e]
DefaultHashString == "11111111111111111111111111111111"

\* A submit that never looks at the signature slots
has_unsigned_accounts_unchecked(solana_transaction) == FALSE

\* Some signature slot still holds Signature::default()
has_unsigned_accounts(solana_transaction) ==
    \E i \in 1..Len(solana_transaction.signatures) :
        solana_transaction.signatures[i] = DefaultSignature

submit_transaction(present, transaction, decoded, sent, slot) ==
    LET current_state == transaction.state IN
    IF ~present THEN Reply("InvalidArgument", "transaction_required", <<>>)
    ELSE IF validate_operation_allowed_for_state(current_state, "submit") # Ok
        THEN Reply("FailedPrecondition", "operation_not_allowed", <<>>)
    ELSE IF validate_transaction_state_consistency(transaction) # Ok
        THEN Reply("InvalidArgument", "inconsistent_state", <<>>)
    ELSE IF current_state # "FullySigned"
        THEN Reply("FailedPrecondition", "not_fully_signed", <<>>)
    ELSE IF ~decoded.ok THEN Reply("InvalidArgument", "decode_failed", <<>>)
    ELSE IF has_unsigned_accounts(decoded.transaction)
        THEN Reply("FailedPrecondition", "unsigned_accounts", <<>>)
    ELSE IF sent.ok
        THEN Success(<<"send_transaction">>,
                     [signature |-> SignatureToString(
                                        IF Len(decoded.transaction.signatures) > 0
                                            THEN decoded.transaction.signatures[1]
                                        ELSE DefaultSignature),
                      submission_result |-> "Submitted",
                      has_structured_error |-> FALSE,
                      sent_transaction |-> decoded.transaction])
    ELSE
        LET classification == classify_submission_error(sent.error)
            current_slot == IF slot.ok THEN slot.slot ELSE 0
            transaction_blockhash ==
                IF IsHash(transaction.recent_blockhash)
                    THEN transaction.recent_blockhash ELSE DefaultHashString
        IN Success(<<"send_transaction", "get_slot">>,
                   [signature |-> NoSignatureString,
                    submission_result |-> classification,
                    has_structured_error |-> TRUE,
                    structured_error |->
                        build_structured_error(sent.error, transaction_blockhash,
                                               current_slot),
                    sent_transaction |-> decoded.transaction])

(***************************************************************************)
(* Signature monitoring: websocket/manager.rs and the stream bridge of     *)
(* service_impl.rs.  Every accepted monitor call creates one subscription: *)
(* a monitoring task, an unbounded channel from the task to a bridge task, *)
(* and the bounded channel from the bridge to the client's stream.  The    *)
(* manager keeps one handle per signature, holding a sender of the         *)
(* unbounded channel and the abort handle of the task.  Timers are not     *)
(* measured: a timer that has been started may expire at any later step.   *)
(***************************************************************************)
MaxPush == 1                \* notifications one push subscription delivers

Subs == {1, 2}              \* the subscriptions, in the order of their monitor calls
Signatures == {"S1"}
IsSignature(s) == s \in Signatures

DefaultTimeoutSeconds == 60
MinTimeoutSeconds == 5
MaxTimeoutSeconds == 300

Item(status, error_message) == [status |-> status, error_message |-> error_message]

\* URLs as scheme://host[:port][path]; a text that is no URL has no scheme
Url(scheme, host, port, path) ==
    [scheme |-> scheme, host |-> host, port |-> port, path |-> path]

NotAUrl == Url("", "not a url", <<>>, "")

RECURSIVE LeadingDigit(_)
LeadingDigit(n) == IF n < 10 THEN n ELSE LeadingDigit(n \div 10)

U16Max == 65535

\* derive_websocket_url_from_rpc: for http://localhost:<port> with a port
\* that starts with 8 and nothing after it, ws://localhost:<port + 1>;
\* otherwise http:// becomes ws:// and https:// becomes wss://
derive_websocket_url_from_rpc(rpc_url) ==
    IF rpc_url.scheme = "http" /\ rpc_url.host = "localhost" /\ rpc_url.port # <<>>
        THEN IF /\ LeadingDigit(rpc_url.port[1]) = 8
                /\ rpc_url.path = ""
                /\ rpc_url.port[1] <= U16Max
                 THEN [ok |-> TRUE, url |-> Url("ws", "localhost", <<rpc_url.port[1] + 1>>, "")]
             ELSE [ok |-> TRUE, url |-> [rpc_url EXCEPT !.scheme = "ws"]]
    ELSE IF rpc_url.scheme = "http"
        THEN [ok |-> TRUE, url |-> [rpc_url EXCEPT !.scheme = "ws"]]
    ELSE IF rpc_url.scheme = "https"
        THEN [ok |-> TRUE, url |-> [rpc_url EXCEPT !.scheme = "wss"]]
    ELSE [ok |-> FALSE, url |-> NotAUrl]

\* Url::parse
url_parse_ok(url) == url.scheme # ""

\* WebSocketManager::new: the connectivity test parses ws_url and panics on
\* a text that is no URL; the manager returned holds the URL of line 65
WebSocketManager_new(ws_url, rpc_url) ==
    [ok |-> url_parse_ok(ws_url),
     websocket_manager |->
         [ws_url |-> Url("wss", "coned-duped-tees.txtx.network", <<8900>>, ""),
          rpc_url |-> rpc_url]]

\* ServiceProviders::new_with_config: the configured WebSocket URL if there
\* is one, otherwise the one derived from the RPC URL
new_with_config(config) ==
    LET derived == derive_websocket_url_from_rpc(config.rpc_url)
        ws_url == IF config.websocket_url # <<>> THEN config.websocket_url[1]
                  ELSE derived.url
        made == WebSocketManager_new(ws_url, config.rpc_url)
    IN IF config.websocket_url = <<>> /\ ~derived.ok
           THEN [made EXCEPT !.ok = FALSE]
       ELSE made

RpcUrls ==
    {Url("http", "localhost", <<8899>>, ""),
     Url("http", "localhost", <<8899>>, "/"),
     Url("http", "localhost", <<9000>>, ""),
     Url("https", "api.mainnet-beta.solana.com", <<>>, ""),
     Url("invalid", "url", <<>>, "")}

WebSocketUrls ==
    {Url("ws", "localhost", <<8900>>, ""),
     Url("wss", "localhost", <<8899>>, ""),
     Url("wss", "coned-duped-tees.txtx.network", <<8900>>, ""),
     NotAUrl}

\* SolanaConfig: rpc_url and the optional websocket_url
Configs ==
    [rpc_url : RpcUrls, websocket_url : {<<>>} \cup {<<u>> : u \in WebSocketUrls}]

\* manager.rs
manager_is_terminal_status(status) ==
    status \in {"Confirmed", "Finalized", "Failed", "Dropped"}

\* A bridge that goes on after forwarding a Timeout
is_terminal_status_without_timeout(status) ==
    status \in {"Confirmed", "Finalized", "Failed", "Dropped"}

\* A bridge that ends its stream on a Timeout only
is_terminal_status_timeout_only(status) == status = "Timeout"

\* service_impl.rs, used by the bridge
is_terminal_status(status) ==
    status \in {"Confirmed", "Finalized", "Failed", "Dropped", "Timeout"}

Confirmations == {"None", "Some(0)", "Some(n)"}

summarize_status(err, confirmations) ==
    IF err THEN Item("Failed", "Transaction failed")
    ELSE IF confirmations \in {"None", "Some(0)"} THEN Item("Finalized", "")
    ELSE Item("Confirmed", "")

create_realtime_timeout_response == Item("Timeout", "Monitoring timeout reached")

\* What the push stream delivers: the subscription is configured without
\* enable_received_notification, so only the processed notification is sent
Notifications ==
    {[kind |-> "ProcessedSignature", err |-> e] : e \in BOOLEAN}

process_signature_notification(notification) ==
    IF notification.kind = "ProcessedSignature"
        THEN IF notification.err THEN Item("Failed", "Transaction failed")
             ELSE Item("Processed", "")
    ELSE Item("Received", "")

\* What get_signature_statuses can answer for a signature whose transaction
\* is in the given state on the chain
RpcError == [ok |-> FALSE, found |-> FALSE, err |-> FALSE, confirmations |-> "None"]
NotFound == [ok |-> TRUE, found |-> FALSE, err |-> FALSE, confirmations |-> "None"]

get_signature_statuses(landed) ==
    {RpcError}
    \cup (IF landed = "NotFound" THEN {NotFound}
          ELSE {[ok |-> TRUE, found |-> TRUE, err |-> landed = "Failed", confirmations |-> c] :
                    c \in Confirmations})

\* monitor_transaction: the checks made before anything is created
MonitorRequest(signature, commitment_valid, timeout_seconds) ==
    [signature |-> signature, commitment_valid |-> commitment_valid,
     timeout_seconds |-> timeout_seconds]

MonitorRequests ==
    {MonitorRequest(sig, TRUE, 0) : sig \in Signatures}
    \cup {MonitorRequest("", TRUE, 0), MonitorRequest(BadString, TRUE, 0),
          MonitorRequest("S1", FALSE, 0),
          MonitorRequest("S1", TRUE, MinTimeoutSeconds - 1),
          MonitorRequest("S1", TRUE, MinTimeoutSeconds),
          MonitorRequest("S1", TRUE, MaxTimeoutSeconds),
          MonitorRequest("S1", TRUE, MaxTimeoutSeconds + 1)}

monitor_request_check(req) ==
    IF req.signature = "" THEN "Err:signature_required"
    ELSE IF ~IsSignature(req.signature) THEN "Err:invalid_signature"
    ELSE IF ~req.commitment_valid THEN "Err:invalid_commitment"
    ELSE LET timeout_seconds == IF req.timeout_seconds = 0 THEN DefaultTimeoutSeconds
                                ELSE req.timeout_seconds
         IN IF timeout_seconds < MinTimeoutSeconds \/ timeout_seconds > MaxTimeoutSeconds
                THEN "Err:invalid_timeout"
            ELSE Ok

\* A task that has not returned and has not been aborted still holds its sender
Running == {"check", "connect", "subscribe", "loop"}

NoTask == [pc |-> "none", signature |-> "", available |-> FALSE, immediate |-> FALSE,
           subscribed |-> FALSE, notifications |-> 0]

\* AbortHandle::abort: the task stops at the await it is suspended in
abort(t) == IF t.pc \in Running THEN [t EXCEPT !.pc = "aborted"] ELSE t

\* The senders of subscription s that are alive: the task's clone and the
\* one in the manager's handle
SenderAlive(s) ==
    \/ task[s].pc \in Running
    \/ \E sig \in Signatures : active_subscriptions[sig] = s

\* The receiver of the unbounded channel lives as long as the bridge runs
ReceiverAlive(s) == bridge[s] = "running"

\* UnboundedSender::send: fails, and queues nothing, once the receiver is gone
send(s, item) ==
    IF ReceiverAlive(s) THEN [websocket_rx EXCEPT ![s] = Append(@, item)] ELSE websocket_rx

\* A sender that never reports its channel closed
is_closed_never(s) == FALSE

\* UnboundedSender::is_closed: the receiver of the channel has been dropped
is_closed(s) == ~ReceiverAlive(s)

\* A status check that goes on to the push subscription whatever it found
after_status_check_falls_through(found) == "connect"

\* The task returns after sending the status its first check found
after_status_check(found) == IF found THEN "done" ELSE "connect"

\* A monitor call that subscribes whatever its request says
monitor_transaction_unchecked(req) ==
    \E s \in Subs :
        /\ task[s].pc = "none"
        /\ \A r \in Subs : r < s => task[r].pc # "none"
        /\ task' = [task EXCEPT ![s] =
                       [NoTask EXCEPT !.pc = "check", !.signature = "S1",
                                      !.available = chain["S1"] # "NotFound"]]
        /\ active_subscriptions' = [active_subscriptions EXCEPT !["S1"] = s]
        /\ bridge' = [bridge EXCEPT ![s] = "running"]
        /\ UNCHANGED <<websocket_rx, grpc_stream, chain, cleanup, manager>>

\* monitor_transaction: subscribe_to_signature and the spawn of the bridge.  A
\* request that fails validation creates nothing.  The handle replaces the
\* one the signature had.
monitor_transaction(req) ==
    IF monitor_request_check(req) # Ok THEN UNCHANGED mvars
    ELSE \E s \in Subs :
            /\ task[s].pc = "none"
            /\ \A r \in Subs : r < s => task[r].pc # "none"
            /\ task' = [task EXCEPT ![s] =
                           [NoTask EXCEPT !.pc = "check", !.signature = req.signature,
                                          !.available = chain[req.signature] # "NotFound"]]
            /\ active_subscriptions' = [active_subscriptions EXCEPT ![req.signature] = s]
            /\ bridge' = [bridge EXCEPT ![s] = "running"]
            /\ UNCHANGED <<websocket_rx, grpc_stream, chain, cleanup, manager>>

\* The status a monitor call is answered with: an error, or the stream
monitor_transaction_reply(req) ==
    IF monitor_request_check(req) # Ok
        THEN Reply("InvalidArgument", monitor_request_check(req), <<>>)
    ELSE Reply("OK", "", <<>>)

MonitorTransaction ==
    /\ manager # "stopped"
    /\ \E req \in MonitorRequests : monitor_transaction(req)
    /\ UNCHANGED <<vin, vout, tx, resp>>

\* The same call with the request and its answer on record
MonitorCall ==
    /\ manager # "stopped"
    /\ \E req \in MonitorRequests :
          /\ monitor_transaction(req)
          /\ resp' = [op |-> "monitor", present |-> TRUE, args |-> req,
                      reply |-> monitor_transaction_reply(req)]
    /\ UNCHANGED <<vin, vout, tx>>

\* handle_signature_subscription: the status check made before subscribing
TaskInitialCheck(s) ==
    /\ task[s].pc = "check"
    /\ \E response \in get_signature_statuses(chain[task[s].signature]) :
          LET found == response.ok /\ response.found
          IN /\ task' = [task EXCEPT ![s].pc = after_status_check(found),
                                      ![s].immediate = found]
             /\ websocket_rx' =
                    IF found THEN send(s, summarize_status(response.err, response.confirmations))
                    ELSE websocket_rx
    /\ UNCHANGED <<active_subscriptions, bridge, grpc_stream, chain, cleanup, manager>>
    /\ UNCHANGED <<vin, vout, tx, resp>>

\* PubsubClient::new
TaskConnect(s) ==
    /\ task[s].pc = "connect"
    /\ \E connected \in BOOLEAN :
          IF connected
              THEN /\ task' = [task EXCEPT ![s].pc = "subscribe"]
                   /\ UNCHANGED websocket_rx
          ELSE /\ task' = [task EXCEPT ![s].pc = "done"]
               /\ websocket_rx' = send(s, Item("Failed", "WebSocket connection failed"))
    /\ UNCHANGED <<active_subscriptions, bridge, grpc_stream, chain, cleanup, manager>>
    /\ UNCHANGED <<vin, vout, tx, resp>>

\* signature_subscribe; once it is established the task starts its timer
TaskSubscribe(s) ==
    /\ task[s].pc = "subscribe"
    /\ \E established \in BOOLEAN :
          IF established
              THEN /\ task' = [task EXCEPT ![s].pc = "loop", ![s].subscribed = TRUE]
                   /\ UNCHANGED websocket_rx
          ELSE /\ task' = [task EXCEPT ![s].pc = "done"]
               /\ websocket_rx' = send(s, Item("Failed", "Signature subscription failed"))
    /\ UNCHANGED <<active_subscriptions, bridge, grpc_stream, chain, cleanup, manager>>
    /\ UNCHANGED <<vin, vout, tx, resp>>

\* select: stream.next() yields a notification (handle_notification_response)
TaskNotification(s) ==
    /\ task[s].pc = "loop"
    /\ task[s].notifications < MaxPush
    /\ \E notification \in Notifications :
          LET response == process_signature_notification(notification)
              stop == ~ReceiverAlive(s) \/ manager_is_terminal_status(response.status)
          IN /\ task' = [task EXCEPT ![s].pc = IF stop THEN "done" ELSE "loop",
                                      ![s].notifications = @ + 1]
             /\ websocket_rx' = send(s, response)
    /\ UNCHANGED <<active_subscriptions, bridge, grpc_stream, chain, cleanup, manager>>
    /\ UNCHANGED <<vin, vout, tx, resp>>

\* select: stream.next() yields None, the task leaves the loop silently
TaskStreamEnded(s) ==
    /\ task[s].pc = "loop"
    /\ task' = [task EXCEPT ![s].pc = "done"]
    /\ UNCHANGED <<websocket_rx, active_subscriptions, bridge, grpc_stream, chain,
                   cleanup, manager>>
    /\ UNCHANGED <<vin, vout, tx, resp>>

\* select: poll_interval.tick(), the poll finds a status (a poll that fails
\* or finds none changes nothing)
TaskPoll(s) ==
    /\ task[s].pc = "loop"
    /\ \E response \in get_signature_statuses(chain[task[s].signature]) :
          /\ response.ok /\ response.found
          /\ LET item == summarize_status(response.err, response.confirmations)
                 stop == ~ReceiverAlive(s) \/ manager_is_terminal_status(item.status)
             IN /\ task' = [task EXCEPT ![s].pc = IF stop THEN "done" ELSE "loop"]
                /\ websocket_rx' = send(s, item)
    /\ UNCHANGED <<active_subscriptions, bridge, grpc_stream, chain, cleanup, manager>>
    /\ UNCHANGED <<vin, vout, tx, resp>>

\* select: the task's timer expires
TaskTimeout(s) ==
    /\ task[s].pc = "loop"
    /\ task' = [task EXCEPT ![s].pc = "done"]
    /\ websocket_rx' = send(s, create_realtime_timeout_response)
    /\ UNCHANGED <<active_subscriptions, bridge, grpc_stream, chain, cleanup, manager>>
    /\ UNCHANGED <<vin, vout, tx, resp>>

\* A bridge that forwards the newest queued response instead of the oldest
BridgeForward_newest_first(s) ==
    /\ bridge[s] = "running"
    /\ websocket_rx[s] # <<>>
    /\ \E client_connected \in BOOLEAN :
          LET response == websocket_rx[s][Len(websocket_rx[s])]
              ends == ~client_connected \/ is_terminal_status(response.status)
          IN /\ grpc_stream' = IF client_connected
                                    THEN [grpc_stream EXCEPT ![s] = Append(@, response)]
                                ELSE grpc_stream
             /\ bridge' = [bridge EXCEPT ![s] = IF ~client_connected THEN "disconnected"
                                                ELSE IF ends THEN "completed" ELSE "running"]
             /\ websocket_rx' = [websocket_rx EXCEPT ![s] = IF ends THEN <<>> ELSE Tail(@)]
    /\ UNCHANGED <<task, active_subscriptions, chain, cleanup, manager>>
    /\ UNCHANGED <<vin, vout, tx, resp>>

\* bridge_websocket_to_grpc_stream: one turn of the loop.  Sending to the
\* client fails when the client has dropped its stream.  When the bridge ends
\* its receiver is dropped, and what was queued with it.
BridgeForward(s) ==
    /\ bridge[s] = "running"
    /\ websocket_rx[s] # <<>>
    /\ \E client_connected \in BOOLEAN :
          LET response == Head(websocket_rx[s])
              ends == ~client_connected \/ is_terminal_status(response.status)
          IN /\ grpc_stream' = IF client_connected
                                    THEN [grpc_stream EXCEPT ![s] = Append(@, response)]
                                ELSE grpc_stream
             /\ bridge' = [bridge EXCEPT ![s] = IF ~client_connected THEN "disconnected"
                                                ELSE IF ends THEN "completed" ELSE "running"]
             /\ websocket_rx' = [websocket_rx EXCEPT ![s] = IF ends THEN <<>> ELSE Tail(@)]
    /\ UNCHANGED <<task, active_subscriptions, chain, cleanup, manager>>
    /\ UNCHANGED <<vin, vout, tx, resp>>

\* recv() returns None: every sender is gone and nothing is queued
BridgeChannelClosed(s) ==
    /\ bridge[s] = "running"
    /\ websocket_rx[s] = <<>>
    /\ ~SenderAlive(s)
    /\ bridge' = [bridge EXCEPT ![s] = "completed"]
    /\ UNCHANGED <<task, websocket_rx, active_subscriptions, grpc_stream, chain,
                   cleanup, manager>>
    /\ UNCHANGED <<vin, vout, tx, resp>>

send_timeout_notification == Item("Timeout", "Stream monitoring timeout reached")

\* The bridge's timer expires while recv() is pending (tokio's timeout polls
\* the loop before the timer); the notification is lost on a client that has
\* dropped its stream
BridgeTimeout(s) ==
    /\ bridge[s] = "running"
    /\ websocket_rx[s] = <<>>
    /\ SenderAlive(s)
    /\ \E client_connected \in BOOLEAN :
          /\ bridge' = [bridge EXCEPT ![s] = IF client_connected THEN "timed_out"
                                             ELSE "disconnected"]
          /\ grpc_stream' = IF client_connected
                                THEN [grpc_stream EXCEPT ![s] = Append(@, send_timeout_notification)]
                            ELSE grpc_stream
    /\ UNCHANGED <<task, websocket_rx, active_subscriptions, chain, cleanup, manager>>
    /\ UNCHANGED <<vin, vout, tx, resp>>

\* The transaction of a signature lands on the chain, with or without error
TransactionLands(sig) ==
    /\ chain[sig] = "NotFound"
    /\ \E outcome \in {"Succeeded", "Failed"} : chain' = [chain EXCEPT ![sig] = outcome]
    /\ UNCHANGED <<task, websocket_rx, active_subscriptions, bridge, grpc_stream, cleanup, manager>>
    /\ UNCHANGED <<vin, vout, tx, resp>>

\* cleanup_expired_subscriptions, first loop: the signatures whose sender is
\* closed, that is whose receiver has been dropped
CleanupScan ==
    /\ manager = "running"
    /\ cleanup = {}
    /\ cleanup' = {sig \in Signatures : /\ active_subscriptions[sig] # 0
                                        /\ is_closed(active_subscriptions[sig])}
    /\ UNCHANGED <<task, websocket_rx, active_subscriptions, bridge, grpc_stream, chain, manager>>
    /\ UNCHANGED <<vin, vout, tx, resp>>

\* cleanup_expired_subscriptions, second loop: whatever handle each of these
\* signatures has now is removed and its task aborted
CleanupRemove ==
    /\ cleanup # {}
    /\ task' = [s \in Subs |->
                  IF \E sig \in cleanup : active_subscriptions[sig] = s
                      THEN abort(task[s]) ELSE task[s]]
    /\ active_subscriptions' = [sig \in Signatures |->
                                  IF sig \in cleanup THEN 0 ELSE active_subscriptions[sig]]
    /\ cleanup' = {}
    /\ UNCHANGED <<websocket_rx, bridge, grpc_stream, chain, manager>>
    /\ UNCHANGED <<vin, vout, tx, resp>>

\* shutdown, first loop: every task that has a handle is aborted
ShutdownAbort ==
    /\ manager = "running"
    /\ manager' = "aborting"
    /\ task' = [s \in Subs |->
                  IF \E sig \in Signatures : active_subscriptions[sig] = s
                      THEN abort(task[s]) ELSE task[s]]
    /\ UNCHANGED <<websocket_rx, active_subscriptions, bridge, grpc_stream, chain,
                   cleanup>>
    /\ UNCHANGED <<vin, vout, tx, resp>>

\* shutdown: active_subscriptions.clear()
ShutdownClear ==
    /\ manager = "aborting"
    /\ manager' = "stopped"
    /\ active_subscriptions' = [sig \in Signatures |-> 0]
    /\ UNCHANGED <<task, websocket_rx, bridge, grpc_stream, chain, cleanup>>
    /\ UNCHANGED <<vin, vout, tx, resp>>

\* No monitor call has been made
MonitorIdle ==
    /\ task = [s \in Subs |-> NoTask]
    /\ websocket_rx = [s \in Subs |-> <<>>]
    /\ active_subscriptions = [sig \in Signatures |-> 0]
    /\ bridge = [s \in Subs |-> "none"]
    /\ grpc_stream = [s \in Subs |-> <<>>]
    /\ chain = [sig \in Signatures |-> "NotFound"]
    /\ cleanup = {}
    /\ manager = "running"

(***************************************************************************)
(* Specification of the validator: the three pure functions applied to     *)
(* every input of a bounded set.                                           *)
(***************************************************************************)
Operations == {"compile", "sign", "estimate", "simulate", "submit",
               "add_instruction", "remove_instruction", "invalid_operation", ""}

SampleMessage == new_with_blockhash(<<Approve("K1", "K2")>>, "K1", "H1")

ValidatorTransactions ==
    [state : TransactionState,
     instructions : {<<>>, <<Transfer("K1", "K2")>>},
     data : {EmptyData, EncodeMessage(SampleMessage)},
     signatures : {<<>>, <<CraftedSignatureString>>},
     fee_payer : {"", "K1"},
     recent_blockhash : {"", "H1"},
     compute_unit_price : {U64(0)}]

ValidatorInputs ==
    {[fn |-> "validate_state_transition", from |-> f, to |-> t] :
        f \in TransactionState, t \in TransactionState}
    \cup {[fn |-> "validate_transaction_state_consistency", transaction |-> t] :
              t \in ValidatorTransactions}
    \cup {[fn |-> "validate_operation_allowed_for_state", state |-> st, operation |-> o] :
              st \in TransactionState, o \in Operations}

ValidatorIdle == [fn |-> "none"]
ServiceIdle == [op |-> "none"]

ValidateTransition ==
    /\ vin.fn = "validate_state_transition"
    /\ vout = "pending"
    /\ vout' = validate_state_transition(vin.from, vin.to)
    /\ UNCHANGED <<vin, tx, resp>>
    /\ UNCHANGED mvars

ValidateConsistency ==
    /\ vin.fn = "validate_transaction_state_consistency"
    /\ vout = "pending"
    /\ vout' = validate_transaction_state_consistency(vin.transaction)
    /\ UNCHANGED <<vin, tx, resp>>
    /\ UNCHANGED mvars

ValidateOperation ==
    /\ vin.fn = "validate_operation_allowed_for_state"
    /\ vout = "pending"
    /\ vout' = validate_operation_allowed_for_state(vin.state, vin.operation)
    /\ UNCHANGED <<vin, tx, resp>>
    /\ UNCHANGED mvars

InitValidator ==
    /\ vin \in ValidatorInputs
    /\ vout = "pending"
    /\ tx = NoTransaction
    /\ resp = ServiceIdle
    /\ MonitorIdle

NextValidator == ValidateTransition \/ ValidateConsistency \/ ValidateOperation

SpecValidator == InitValidator /\ [][NextValidator]_vars

(***************************************************************************)
(* Specification of the transaction service.  The service keeps no         *)
(* transaction between requests: the client holds the Transaction record,  *)
(* sends it with each request and continues with the one returned.  The    *)
(* client starts from a draft or from any record it cares to craft.        *)
(***************************************************************************)
MaxKeys == 2

ComputeUnitPrices == {U64(0), U64(3), U64Pow256(4)}

HalfSigned == [signatures |-> <<sign_message("K1", SampleMessage), DefaultSignature>>,
               message |-> SampleMessage]

CraftedData ==
    {EmptyData, GarbageData, EncodeMessage(SampleMessage),
     EncodeTransaction(new_unsigned(SampleMessage)), EncodeTransaction(HalfSigned)}

Drafts ==
    [state : {"Draft"}, instructions : InstructionLists, data : {EmptyData},
     signatures : {<<>>}, fee_payer : {""}, recent_blockhash : {""},
     compute_unit_price : ComputeUnitPrices]

CraftedTransactions ==
    [state : TransactionState,
     instructions : {<<>>, <<Transfer("K1", "K2")>>}
                       \cup {[i \in 1..n |-> Read("K3")] : n \in {5, 28, 29}},
     data : CraftedData,
     signatures : {<<>>, <<CraftedSignatureString>>},
     fee_payer : {"", "K1"},
     recent_blockhash : {"H1"},
     compute_unit_price : {U64(0)}]

FeePayerStrings == {"", BadString, "K1", "K2"}
BlockhashStrings == {"", BadString, "H1"}

\* Key lists of up to MaxKeys keys; a key that does not parse ends the request,
\* so nothing follows it
PrivateKeyLists ==
    LET good == {k \in PrivateKeyStrings : k.kind = "keypair"}
    IN SeqsUpTo(good, MaxKeys)
       \cup {Append(q, k) : q \in SeqsUpTo(good, MaxKeys - 1),
                            k \in PrivateKeyStrings \ good}

SigningMethods ==
    {[method |-> "private_keys", private_keys |-> ks] : ks \in PrivateKeyLists}
    \cup {[method |-> "seeds"], [method |-> "none"]}

SimulationOutcomes ==
    {SimulationFailed}
    \cup {SimulationResult(u, NoTransactionError) :
            u \in {NoUnits, U64(0), U64(150000), U64Pow256(4)}}
    \cup {SimulationResult(NoUnits, [variant |-> "AccountNotFound", instruction_error |-> ""])}

ChainSlots == {1000}
\* The failures of send_transaction the service specification draws from
SubmissionErrors ==
    {ClientError("TransactionError", [variant |-> "BlockhashNotFound", instruction_error |-> ""], {}),
     ClientError("TransactionError", [variant |-> "AlreadyProcessed", instruction_error |-> ""], {}),
     ClientError("PreflightFailure", [variant |-> "InsufficientFundsForFee", instruction_error |-> ""], {}),
     ClientError("PreflightFailure", NoTransactionError, {}),
     ClientError("ReqwestTimeout", NoTransactionError, {}),
     ClientError("Custom", NoTransactionError, {"invalid", "signature"})}

SendOutcomes == {SendOk} \cup {SendErr(e) : e \in SubmissionErrors}

\* A request without a transaction is answered before anything else is read
WhenPresent(present, S) == IF present THEN S ELSE {CHOOSE x \in S : TRUE}

\* What a request carried: without a transaction the record is absent
Carried(present) == IF present THEN tx ELSE NoTransaction

\* The service answers one request of the client at a time; tx is the record
\* the client sent, which stays as it is until the client takes the reply.
Respond(op, present, args, reply) ==
    /\ resp = ServiceIdle
    /\ resp' = [op |-> op, present |-> present, args |-> args, reply |-> reply]
    /\ UNCHANGED <<vin, vout, tx>>
    /\ UNCHANGED mvars

CompileTransaction ==
    \E present \in BOOLEAN :
    \E fee_payer \in WhenPresent(present, FeePayerStrings),
       recent_blockhash \in WhenPresent(present, BlockhashStrings),
       fetched \in WhenPresent(present, {"Err"} \cup Blockhashes) :
        Respond("compile", present,
                [fee_payer |-> fee_payer, recent_blockhash |-> recent_blockhash,
                 fetched |-> fetched],
                compile_transaction(present, Carried(present), fee_payer,
                                    recent_blockhash, fetched))

EstimateTransaction ==
    \E present \in BOOLEAN :
    \E decoded \in WhenPresent(present, DeserializeMessage(tx.data)),
       simulation \in WhenPresent(present, SimulationOutcomes),
       overflow_checks \in WhenPresent(present, BOOLEAN) :
        Respond("estimate", present, [simulation |-> simulation],
                estimate_transaction(present, Carried(present), decoded, simulation,
                                     overflow_checks))

SimulateTransaction ==
    \E present \in BOOLEAN :
    \E decoded \in WhenPresent(present, DeserializeMessage(tx.data)),
       simulation \in WhenPresent(present, SimulationOutcomes) :
        Respond("simulate", present, <<>>,
                simulate_transaction(present, Carried(present), decoded, simulation))

SignTransaction ==
    \E present \in BOOLEAN :
    \E signing_method \in WhenPresent(present, SigningMethods),
       decoded \in WhenPresent(present, DeserializeMessage(tx.data)) :
        Respond("sign", present, signing_method,
                sign_transaction(present, Carried(present), signing_method, decoded))

\* network_slot is the slot the network is at when the send fails; get_slot
\* reports it or fails
SubmitTransaction ==
    \E present \in BOOLEAN :
    \E decoded \in WhenPresent(present, DeserializeTransaction(tx.data)),
       sent \in WhenPresent(present, SendOutcomes),
       network_slot \in WhenPresent(present, ChainSlots) :
    \E slot \in WhenPresent(present, {SlotErr, SlotOk(network_slot)}) :
        Respond("submit", present,
                [sent |-> sent, slot |-> slot, network_slot |-> network_slot],
                submit_transaction(present, Carried(present), decoded, sent, slot))

\* The client takes the reply and goes on with the transaction it returned,
\* or with the one it had when the reply carries none.
ClientContinues ==
    /\ resp # ServiceIdle
    /\ tx' = IF resp.reply.code = "OK" /\ resp.op \in {"compile", "sign"}
                 THEN resp.reply.body.transaction ELSE tx
    /\ resp' = ServiceIdle
    /\ UNCHANGED <<vin, vout>>
    /\ UNCHANGED mvars

InitService ==
    /\ vin = ValidatorIdle
    /\ vout = "idle"
    /\ tx \in Drafts \cup CraftedTransactions
    /\ resp = ServiceIdle
    /\ MonitorIdle

NextService ==
    \/ CompileTransaction
    \/ EstimateTransaction
    \/ SimulateTransaction
    \/ SignTransaction
    \/ SubmitTransaction
    \/ ClientContinues

SpecService == InitService /\ [][NextService]_vars

(***************************************************************************)
(* Specification of the classification of a failed send: the error arm of  *)
(* submit applied to every client error of a bounded set, with the         *)
(* blockhash of the transaction and the slot it read.                      *)
(***************************************************************************)
ClassifierSlots == {0, 1000}

ClassifierInputs ==
    {[fn |-> "build_structured_error", client_error |-> e, transaction_blockhash |-> b,
      current_slot |-> n] :
        e \in ClientErrors, b \in {"H1", DefaultHashString}, n \in ClassifierSlots}

NotClassified == [submission_result |-> "pending"]

SubmissionFailed ==
    /\ vin.fn = "build_structured_error"
    /\ vout = NotClassified
    /\ vout' = [submission_result |-> classify_submission_error(vin.client_error),
                structured_error |->
                    build_structured_error(vin.client_error, vin.transaction_blockhash,
                                           vin.current_slot)]
    /\ UNCHANGED <<vin, tx, resp>>
    /\ UNCHANGED mvars

InitClassifier ==
    /\ vin \in ClassifierInputs
    /\ vout = NotClassified
    /\ tx = NoTransaction
    /\ resp = ServiceIdle
    /\ MonitorIdle

NextClassifier == SubmissionFailed

SpecClassifier == InitClassifier /\ [][NextClassifier]_vars

(***************************************************************************)
(* Specification of the monitoring: monitor calls, the tasks and bridges   *)
(* they start, the chain, the periodic sweep and the shutdown.             *)
(***************************************************************************)
InitMonitor ==
    /\ vin = ValidatorIdle
    /\ vout = "idle"
    /\ tx = NoTransaction
    /\ resp = ServiceIdle
    /\ MonitorIdle

NextMonitor ==
    \/ MonitorTransaction
    \/ \E s \in Subs : TaskInitialCheck(s)
    \/ \E s \in Subs : TaskConnect(s)
    \/ \E s \in Subs : TaskSubscribe(s)
    \/ \E s \in Subs : TaskNotification(s)
    \/ \E s \in Subs : TaskStreamEnded(s)
    \/ \E s \in Subs : TaskPoll(s)
    \/ \E s \in Subs : TaskTimeout(s)
    \/ \E s \in Subs : BridgeForward(s)
    \/ \E s \in Subs : BridgeChannelClosed(s)
    \/ \E s \in Subs : BridgeTimeout(s)
    \/ \E sig \in Signatures : TransactionLands(sig)
    \/ CleanupScan
    \/ CleanupRemove
    \/ ShutdownAbort
    \/ ShutdownClear

SpecMonitor == InitMonitor /\ [][NextMonitor]_vars

\* The monitor calls of one client with request and answer on record, the
\* tasks they start running up to their push subscription, their bridges,
\* the chain and the sweep
NextMonitorCall ==
    \/ MonitorCall
    \/ \E s \in Subs : TaskInitialCheck(s)
    \/ \E s \in Subs : TaskConnect(s)
    \/ \E s \in Subs : TaskSubscribe(s)
    \/ \E s \in Subs : BridgeForward(s)
    \/ \E sig \in Signatures : TransactionLands(sig)
    \/ CleanupScan
    \/ CleanupRemove

SpecMonitorCall == InitMonitor /\ [][NextMonitorCall]_vars

\* The monitoring of a server started with any configuration it starts
\* with; the construction stays on record, its configuration and the
\* manager it returned
InitProviders ==
    \E config \in Configs :
        /\ new_with_config(config).ok
        /\ vin = ValidatorIdle
        /\ vout = "idle"
        /\ tx = NoTransaction
        /\ resp = [op |-> "new_with_config", present |-> TRUE, args |-> config,
                   reply |-> Success(<<>>, new_with_config(config).websocket_manager)]
        /\ MonitorIdle

\* PubsubClient::new(&ws_url): ws_url is the clone of the manager's field
\* taken when the task was spawned; the field is never assigned after new
pubsub_url(s) == resp.reply.body.ws_url

NextProviders ==
    \/ MonitorTransaction
    \/ \E s \in Subs : TaskInitialCheck(s)
    \/ \E s \in Subs : TaskConnect(s)
    \/ \E s \in Subs : TaskSubscribe(s)
    \/ \E s \in Subs : BridgeForward(s)
    \/ \E sig \in Signatures : TransactionLands(sig)

SpecProviders == InitProviders /\ [][NextProviders]_vars

\* The monitoring under its scheduling: a bridge task that can take a step
\* takes one (its loop runs under a timer), the sweep runs on every tick of
\* its interval and finishes the run it started, and a shutdown that has
\* begun clears the map.  Nothing obliges a client to call, a push stream to
\* deliver, the chain to advance or the operator to shut down.
SpecMonitorFair ==
    /\ SpecMonitor
    /\ \A s \in Subs :
          WF_vars(BridgeForward(s) \/ BridgeChannelClosed(s) \/ BridgeTimeout(s))
    /\ WF_vars(CleanupScan)
    /\ WF_vars(CleanupRemove)
    /\ WF_vars(ShutdownClear)

(***************************************************************************)
(* Properties of the validator                                             *)
(***************************************************************************)
ValidatorReturned(fn) == vin.fn = fn /\ vout # "pending"

PermittedTransitions ==
    {<<"Draft", "Compiled">>, <<"Compiled", "PartiallySigned">>,
     <<"Compiled", "FullySigned">>, <<"PartiallySigned", "FullySigned">>,
     <<"PartiallySigned", "PartiallySigned">>}

\* C1: validate_state_transition succeeds for exactly the five pairs
\* Draft->Compiled, Compiled->PartiallySigned, Compiled->FullySigned,
\* PartiallySigned->FullySigned, PartiallySigned->PartiallySigned, and fails
\* for every other pair of states.
C1_ExactlyFiveTransitions ==
    ValidatorReturned("validate_state_transition") =>
        (vout = Ok <=> <<vin.from, vin.to>> \in PermittedTransitions)

ConsistencyRow(t) ==
    CASE t.state = "Draft" ->
            t.instructions # <<>> /\ t.data = EmptyData /\ t.signatures = <<>>
      [] t.state = "Compiled" ->
            /\ t.instructions # <<>> /\ t.data # EmptyData /\ t.signatures = <<>>
            /\ t.fee_payer # "" /\ t.recent_blockhash # ""
      [] t.state \in {"PartiallySigned", "FullySigned"} ->
            /\ t.data # EmptyData /\ t.signatures # <<>>
            /\ t.fee_payer # "" /\ t.recent_blockhash # ""
      [] OTHER -> FALSE

\* C2: validate_transaction_state_consistency succeeds exactly when the
\* transaction's fields match the row of its state (Unspecified never does),
\* so a transaction that violates one required field of its row is rejected.
C2_ConsistencyMatchesRow ==
    ValidatorReturned("validate_transaction_state_consistency") =>
        (vout = Ok <=> ConsistencyRow(vin.transaction))

\* A compiled transaction whose only defect is the missing fee payer was rejected
C2_Witness ==
    /\ ValidatorReturned("validate_transaction_state_consistency")
    /\ vin.transaction.state = "Compiled"
    /\ vin.transaction.instructions # <<>>
    /\ vin.transaction.data # EmptyData
    /\ vin.transaction.signatures = <<>>
    /\ vin.transaction.recent_blockhash # ""
    /\ vin.transaction.fee_payer = ""
    /\ vout # Ok

AllowedOperations(state) ==
    CASE state = "Draft" -> {"compile"}
      [] state \in {"Compiled", "PartiallySigned"} -> {"sign", "estimate", "simulate"}
      [] state = "FullySigned" -> {"estimate", "simulate", "submit"}
      [] OTHER -> {}

\* C3: among compile, sign, estimate, simulate and submit, compile is accepted
\* only in Draft, sign only in Compiled and PartiallySigned, estimate and
\* simulate only in Compiled, PartiallySigned and FullySigned, submit only in
\* FullySigned, and nothing is accepted in Unspecified.
C3_OperationPermissions ==
    (/\ ValidatorReturned("validate_operation_allowed_for_state")
     /\ vin.operation \in {"compile", "sign", "estimate", "simulate", "submit"})
        => (vout = Ok <=> vin.operation \in AllowedOperations(vin.state))

\* submit was refused for a partially signed transaction
C3_Witness ==
    /\ ValidatorReturned("validate_operation_allowed_for_state")
    /\ vin.state = "PartiallySigned"
    /\ vin.operation = "submit"
    /\ vout # Ok

(***************************************************************************)
(* Properties of the transaction service                                   *)
(***************************************************************************)
Answered(op) == resp # ServiceIdle /\ resp.op = op /\ resp.present

\* The signature slots of encoded transaction data that are populated
Populated(data) == {i \in 1..Len(data.signatures) : data.signatures[i] # DefaultSignature}

\* A transaction as the first of two signing calls returns it: its message is
\* the compilation of its own instructions and requires two signers, one slot
\* holds the signature of that slot's account, the other is empty.
FirstStepResult(t) ==
    /\ t.state = "PartiallySigned"
    /\ t.data.fmt = "transaction"
    /\ t.data.message = new_with_blockhash(t.instructions, t.fee_payer, t.recent_blockhash)
    /\ t.data.message.num_required_signatures = 2
    /\ Len(t.data.signatures) = 2
    /\ \E i \in 1..2 :
          /\ Populated(t.data) = {i}
          /\ t.data.signatures[i] = sign_message(t.data.message.account_keys[i], t.data.message)
          /\ t.signatures = <<SignatureToString(t.data.signatures[i])>>

\* C4: signing goes on across calls: when sign is called on the partially
\* signed transaction that a first call returned for a two-signer message, with
\* the key of the signer still missing, it succeeds and returns FullySigned
\* with both signatures, the first call's signature among them.
C4_MultiStepSigning ==
    (Answered("sign") /\ FirstStepResult(tx) /\ resp.args.method = "private_keys"
        /\ \E i \in 1..2 :
              /\ i \notin Populated(tx.data)
              /\ resp.args.private_keys
                    = <<KeypairString(tx.data.message.account_keys[i])>>)
    => /\ resp.reply.code = "OK"
       /\ resp.reply.body.transaction.state = "FullySigned"
       /\ Len(resp.reply.body.transaction.signatures) = 2
       /\ tx.signatures[1] \in Range(resp.reply.body.transaction.signatures)

\* C5: a successful sign returns FullySigned exactly when the populated
\* signature slots are at least as many as the message's required signers and
\* PartiallySigned otherwise; a compiled transaction requiring one signer,
\* signed with that signer's key, comes back FullySigned with one signature.
C5_StateFollowsSignatureCount ==
    /\ (Answered("sign") /\ resp.reply.code = "OK")
       => LET signed == resp.reply.body.transaction
              populated == Cardinality(Populated(signed.data))
              required == signed.data.message.num_required_signatures
          IN /\ populated >= required => signed.state = "FullySigned"
             /\ populated < required => signed.state = "PartiallySigned"
    /\ (Answered("sign") /\ tx.state = "Compiled"
           /\ validate_transaction_state_consistency(tx) = Ok
           /\ tx.data.fmt = "message"
           /\ tx.data.message.num_required_signatures = 1
           /\ resp.args.method = "private_keys"
           /\ resp.args.private_keys = <<KeypairString(tx.data.message.account_keys[1])>>)
       => /\ resp.reply.code = "OK"
          /\ resp.reply.body.transaction.state = "FullySigned"
          /\ Len(resp.reply.body.transaction.signatures) = 1

C5_Witness ==
    /\ Answered("sign") /\ resp.reply.code = "OK"
    /\ tx.state = "Compiled"
    /\ tx.data.message.num_required_signatures = 1
    /\ resp.args.private_keys = <<KeypairString(tx.data.message.account_keys[1])>>
    /\ resp.reply.body.transaction.state = "FullySigned"
    /\ Len(resp.reply.body.transaction.signatures) = 1

\* Reading the data as a transaction gives one with an empty signature slot
DecodesWithEmptySlot(data) ==
    \E d \in DeserializeTransaction(data) :
        d.ok /\ \E i \in 1..Len(d.transaction.signatures) :
                    d.transaction.signatures[i] = DefaultSignature

Refused == resp.reply.code = "FailedPrecondition" /\ resp.reply.net = <<>>

\* C6 as stated: submit returns FailedPrecondition, with no network call,
\* whenever the state is not FullySigned or the decoded transaction has a
\* signature slot at its default value.
C6_AsStated ==
    (Answered("submit") /\ (tx.state # "FullySigned" \/ DecodesWithEmptySlot(tx.data)))
    => Refused

\* C6: submit returns FailedPrecondition, with no network call, whenever the
\* state is not FullySigned, or the record is FullySigned, passes the
\* consistency check and its data decodes to a transaction with a signature
\* slot at its default value.  (A FullySigned record that fails the
\* consistency check is answered InvalidArgument before its data is decoded.)
C6_SubmitRefusesUnsigned ==
    (Answered("submit")
        /\ (\/ tx.state # "FullySigned"
            \/ validate_transaction_state_consistency(tx) = Ok
                  /\ DecodesWithEmptySlot(tx.data)))
    => Refused

C6_Witness ==
    /\ Answered("submit") /\ tx.state = "FullySigned"
    /\ validate_transaction_state_consistency(tx) = Ok
    /\ DecodesWithEmptySlot(tx.data)
    /\ Refused

\* C7: compile, estimate, simulate, sign and submit answer a transaction that
\* fails the permission check or the consistency check with an error and
\* without any network call.
C7_ChecksPrecedeNetwork ==
    \A op \in {"compile", "estimate", "simulate", "sign", "submit"} :
        (Answered(op)
            /\ (\/ validate_operation_allowed_for_state(tx.state, op) # Ok
                \/ validate_transaction_state_consistency(tx) # Ok))
        => /\ resp.reply.code \in {"FailedPrecondition", "InvalidArgument"}
           /\ resp.reply.net = <<>>

C7_Witness ==
    /\ Answered("simulate")
    /\ validate_operation_allowed_for_state(tx.state, "simulate") = Ok
    /\ validate_transaction_state_consistency(tx) # Ok
    /\ tx.data.fmt = "message"
    /\ resp.reply.code = "InvalidArgument"
    /\ resp.reply.net = <<>>

(***************************************************************************)
(* Properties of the monitoring                                            *)
(***************************************************************************)
\* The client stream of subscription s has ended
Closed(s) == bridge[s] \in {"completed", "timed_out", "disconnected"}

\* The consumer of subscription s was there for everything sent to it
ConsumerStayed(s) == bridge[s] # "disconnected"

ReportedStatuses == {"Finalized", "Confirmed", "Failed"}

\* C8 as stated: a monitor call made when the status of the signature is
\* already available (and the status check returns it) delivers exactly one
\* status (Finalized, Confirmed or Failed) and the stream closes; no push
\* subscription is opened, no second status is delivered and no Timeout is
\* produced.
C8_AsStated ==
    \A s \in Subs :
        (task[s].available /\ task[s].immediate /\ ConsumerStayed(s))
        => /\ task[s].pc \notin {"connect", "subscribe", "loop"}
           /\ ~task[s].subscribed
           /\ Len(grpc_stream[s]) <= 1
           /\ \A i \in 1..Len(grpc_stream[s]) :
                 grpc_stream[s][i].status \in ReportedStatuses
           /\ Closed(s) => Len(grpc_stream[s]) = 1

\* C8: when the status check made at the start of monitoring returns a
\* status, the task sends that one status (Finalized, Confirmed or Failed)
\* and ends without opening a push subscription and without a Timeout of its
\* own; the client stream carries at most one item and closes: that status,
\* or a single Timeout of the bridge when the bridge's timer expired before
\* the status reached it.  A stream that the bridge ended without timing out
\* delivered exactly that status.
C8_ImmediateStatusOnce ==
    \A s \in Subs :
        (task[s].immediate /\ ConsumerStayed(s))
        => /\ task[s].pc = "done"
           /\ ~task[s].subscribed /\ task[s].notifications = 0
           /\ Len(websocket_rx[s]) + Len(grpc_stream[s]) <= 1
           /\ \A i \in 1..Len(websocket_rx[s]) :
                 websocket_rx[s][i].status \in ReportedStatuses
           /\ \A i \in 1..Len(grpc_stream[s]) :
                 \/ grpc_stream[s][i].status \in ReportedStatuses
                 \/ grpc_stream[s][i] = send_timeout_notification /\ bridge[s] = "timed_out"
           /\ bridge[s] = "completed"
                 => /\ Len(grpc_stream[s]) = 1
                    /\ grpc_stream[s][1].status \in ReportedStatuses
           /\ bridge[s] = "timed_out" => grpc_stream[s] = <<send_timeout_notification>>

C8_Witness ==
    \E s \in Subs :
        /\ task[s].available /\ task[s].immediate
        /\ bridge[s] = "completed"
        /\ grpc_stream[s] = <<Item("Finalized", "")>>

\* C9: a monitor stream whose consumer stays connected never closes without
\* a terminal status (Confirmed, Finalized, Failed, Dropped) or a Timeout as
\* its last item, whatever other monitor calls, the sweep and shutdown do
\* (stated here for the streams whose task was never aborted, before any
\* shutdown).
C9_ClosesOnTerminalOrTimeout ==
    \A s \in Subs :
        (manager = "running" /\ task[s].pc # "aborted" /\ Closed(s) /\ ConsumerStayed(s))
        => /\ grpc_stream[s] # <<>>
           /\ is_terminal_status(grpc_stream[s][Len(grpc_stream[s])].status)

\* C10: a Timeout is the last item of the client stream it is delivered on,
\* no terminal status (Confirmed, Finalized, Failed, Dropped) precedes it, and
\* so it is delivered at most once; the stream has ended with it.
C10_TimeoutOnceAndLast ==
    \A s \in Subs :
        \A i \in 1..Len(grpc_stream[s]) :
            grpc_stream[s][i].status = "Timeout"
            => /\ i = Len(grpc_stream[s])
               /\ Closed(s)
               /\ \A j \in 1..(i - 1) :
                     grpc_stream[s][j].status
                        \notin {"Confirmed", "Finalized", "Failed", "Dropped", "Timeout"}

C10_Witness ==
    \E s \in Subs :
        /\ Len(grpc_stream[s]) = 2
        /\ grpc_stream[s][1].status = "Processed"
        /\ grpc_stream[s][2] = create_realtime_timeout_response
        /\ bridge[s] = "completed"

\* C11: the sweep removes from the subscription map, and aborts the task of,
\* only subscriptions whose consumer channel is closed: a subscription whose
\* consumer is still connected is never removed or aborted by the sweep, one
\* created for the same signature while the sweep is running included.
C11_SweepSparesConnected ==
    [][CleanupRemove =>
          \A sig \in cleanup :
              active_subscriptions[sig] # 0
              => ~ReceiverAlive(active_subscriptions[sig])]_vars

\* The Failed items the task sends when it cannot set up its push channel
SetupFailureItems ==
    {Item("Failed", "WebSocket connection failed"),
     Item("Failed", "Signature subscription failed")}

\* C12: when setting up the push channel fails (the push client cannot be
\* created or the signature subscription is refused) the task goes on by
\* polling and the subscription is not failed: no Failed status caused by the
\* setup failure is sent to the client, and a task that has ended without a
\* push subscription is one whose first status check found the status.
C12_SetupFailureFallsBackToPolling ==
    \A s \in Subs :
        /\ \A i \in 1..Len(websocket_rx[s]) : websocket_rx[s][i] \notin SetupFailureItems
        /\ \A i \in 1..Len(grpc_stream[s]) : grpc_stream[s][i] \notin SetupFailureItems
        /\ (task[s].pc = "done" /\ ~task[s].subscribed) => task[s].immediate

\* C13: with the sweep running repeatedly, every subscription map entry is
\* eventually removed once its monitoring task has finished or its consumer
\* has disconnected: no entry of a finished or abandoned subscription stays
\* in the map forever.
C13_FinishedEntriesAreRemoved ==
    \A s \in Subs : \A sig \in Signatures :
        (active_subscriptions[sig] = s /\ (task[s].pc = "done" \/ bridge[s] = "disconnected"))
        ~> (active_subscriptions[sig] # s)

C13_Witness ==
    \E s \in Subs : \E sig \in Signatures :
        /\ task[s].signature = sig
        /\ task[s].pc = "done"
        /\ bridge[s] = "completed"
        /\ grpc_stream[s] # <<>>
        /\ manager = "running"
        /\ active_subscriptions[sig] = 0
        /\ \A r \in Subs : r # s => task[r].pc = "none"

\* No handle of the map refers to subscription s
Unmapped(s) == \A sig \in Signatures : active_subscriptions[sig] # s

\* C14: a second monitor call for a signature that has a live subscription
\* replaces the map entry without touching the first subscription: the step
\* that replaces the entry leaves the first task, its channel and its bridge
\* as they were, nothing aborts a task the map no longer refers to, and such
\* a task ends by itself in one of three ways only: it has sent a terminal
\* status (Confirmed, Finalized, Failed, Dropped), its send failed because
\* the consumer is gone, or it has sent the Timeout of its own timer.
C14_ReplacedTaskEndsByItself ==
    [][\A s \in Subs :
          /\ (\E sig \in Signatures :
                 /\ active_subscriptions[sig] = s
                 /\ active_subscriptions'[sig] \notin {0, s})
             => /\ task'[s] = task[s]
                /\ websocket_rx'[s] = websocket_rx[s]
                /\ bridge'[s] = bridge[s]
          /\ (Unmapped(s) /\ task[s].pc \in Running)
             => /\ task'[s].pc # "aborted"
                /\ task'[s].pc = "done"
                   => \/ ~ReceiverAlive(s)
                      \/ /\ Len(websocket_rx'[s]) = Len(websocket_rx[s]) + 1
                         /\ SubSeq(websocket_rx'[s], 1, Len(websocket_rx[s])) = websocket_rx[s]
                         /\ is_terminal_status(websocket_rx'[s][Len(websocket_rx'[s])].status)
      ]_vars

(***************************************************************************)
(* Properties of the submission and of its error classification            *)
(***************************************************************************)
AlreadyProcessed ==
    {ClientError(kind, [variant |-> "AlreadyProcessed", instruction_error |-> ""], {}) :
        kind \in {"TransactionError", "PreflightFailure"}}

\* C15: when the network rejects the send with the already-processed
\* transaction error, submit treats it as success: the response reports
\* Submitted and is not an error response, it carries no structured error.
C15_AlreadyProcessedIsSuccess ==
    (/\ Answered("submit")
     /\ resp.reply.code = "OK"
     /\ ~resp.args.sent.ok
     /\ resp.args.sent.error \in AlreadyProcessed)
    => /\ resp.reply.body.submission_result = "Submitted"
       /\ ~resp.reply.body.has_structured_error

\* The failed send of the classifier specification has been classified
Classified == vin.fn = "build_structured_error" /\ vout # NotClassified

\* C16: in every structured error the classifier builds, retryable is a
\* function of code alone: a structured error built from any other client
\* error, blockhash or slot that has the same code has the same retryable.
C16_RetryableFollowsCode ==
    Classified
    => \A other \in ClassifierInputs :
          LET built == build_structured_error(other.client_error, other.transaction_blockhash,
                                              other.current_slot)
          IN built.code = vout.structured_error.code
             => built.retryable = vout.structured_error.retryable

C16_Witness ==
    /\ Classified
    /\ vin.client_error.kind = "PreflightFailure"
    /\ vout.structured_error.code = "InsufficientFunds"
    /\ vout.structured_error.retryable

\* C17: a node-unhealthy error, an I/O transport error, an HTTP transport
\* error (timeout, connection or other request failure) and a generic RPC
\* error are each classified with certainty UnknownResolvable and
\* retryable = true.
C17_TransportErrorsAreResolvable ==
    (/\ Classified
     /\ vin.client_error.kind \in {"NodeUnhealthy", "Io", "ReqwestTimeout", "ReqwestConnect",
                                   "ReqwestOther", "RpcOther"})
    => /\ vout.structured_error.certainty = "UnknownResolvable"
       /\ vout.structured_error.retryable

C17_Witness ==
    /\ Classified
    /\ vin.client_error.kind = "ReqwestOther"
    /\ vout.structured_error.code = "RequestFailed"
    /\ vout.structured_error.certainty = "UnknownResolvable"

\* The transaction error a client error reports, directly or inside a
\* preflight failure
Reports(variants) ==
    /\ vin.client_error.kind \in {"TransactionError", "PreflightFailure"}
    /\ vin.client_error.err.variant \in variants

\* C18: block cost limit exceeded, account cost limit exceeded and too many
\* account locks, reported directly or inside a preflight failure, are each
\* classified as code WouldExceedBlockLimit with certainty NotSubmitted and
\* retryable = true.
C18_CapacityErrorsAreBlockLimit ==
    (Classified /\ Reports({"WouldExceedMaxBlockCostLimit", "WouldExceedMaxAccountCostLimit",
                            "TooManyAccountLocks"}))
    => /\ vout.structured_error.code = "WouldExceedBlockLimit"
       /\ vout.structured_error.certainty = "NotSubmitted"
       /\ vout.structured_error.retryable

\* C19: insufficient funds for fee and insufficient funds for rent, reported
\* as a direct transaction error or inside a preflight failure, are
\* classified as code InsufficientFunds with certainty NotSubmitted and
\* retryable = true.
C19_InsufficientFunds ==
    (Classified /\ Reports({"InsufficientFundsForFee", "InsufficientFundsForRent"}))
    => /\ vout.structured_error.code = "InsufficientFunds"
       /\ vout.structured_error.certainty = "NotSubmitted"
       /\ vout.structured_error.retryable

C19_Witness ==
    /\ Classified
    /\ vin.client_error.kind = "PreflightFailure"
    /\ vin.client_error.err.variant = "InsufficientFundsForRent"
    /\ vout.structured_error.code = "InsufficientFunds"

\* C20: every successful compile returns a transaction in state Compiled
\* that satisfies the Compiled consistency row: data non-empty, fee_payer
\* equal to the requested fee payer, recent_blockhash set (the supplied one,
\* or the fetched one when none was supplied), signatures empty, and the
\* instruction list unchanged from the input.
C20_CompileReturnsCompiled ==
    (Answered("compile") /\ resp.reply.code = "OK")
    => LET compiled == resp.reply.body.transaction
       IN /\ compiled.state = "Compiled"
          /\ ConsistencyRow(compiled)
          /\ validate_transaction_state_consistency(compiled) = Ok
          /\ compiled.data # EmptyData
          /\ compiled.fee_payer = resp.args.fee_payer
          /\ compiled.recent_blockhash # ""
          /\ compiled.recent_blockhash =
                IF resp.args.recent_blockhash # "" THEN resp.args.recent_blockhash
                ELSE resp.args.fetched
          /\ compiled.signatures = <<>>
          /\ compiled.instructions = tx.instructions

C20_Witness ==
    /\ Answered("compile")
    /\ resp.reply.code = "OK"
    /\ resp.args.recent_blockhash = ""
    /\ resp.args.fetched = "H2"
    /\ resp.reply.net = <<"get_latest_blockhash">>
    /\ resp.reply.body.transaction.recent_blockhash = "H2"
    /\ resp.reply.body.transaction.fee_payer = "K2"
    /\ Len(tx.instructions) = MaxInstr

\* The signature slots the keys of a list address in a message
MatchedSlots(message, private_keys) ==
    {position(message.account_keys, private_keys[i].pubkey) : i \in 1..Len(private_keys)} \ {0}

\* A sign call with private keys on a compiled message that got a response
SignedWithKeys ==
    /\ Answered("sign")
    /\ resp.args.method = "private_keys"
    /\ tx.data.fmt = "message"
    /\ resp.reply.code = "OK"

\* C21: signing is idempotent per key within one call: whatever the number of
\* times a key occurs in the key list, the returned transaction holds that
\* key's signature in that key's slot and in no other, the signature list
\* has one entry per slot filled, and the state is FullySigned only when the
\* slots filled are all the required ones; so the same key given twice for a
\* two-signer message leaves it PartiallySigned with one signature.
C21_SigningIsIdempotentPerKey ==
    SignedWithKeys =>
        LET message == tx.data.message
            slots == MatchedSlots(message, resp.args.private_keys)
            out == resp.reply.body.transaction
        IN /\ out.data.fmt = "transaction"
           /\ Len(out.data.signatures) = message.num_required_signatures
           /\ \A i \in 1..Len(out.data.signatures) :
                 out.data.signatures[i]
                    = IF i \in slots THEN sign_message(message.account_keys[i], message)
                      ELSE DefaultSignature
           /\ Len(out.signatures) = Cardinality(slots)
           /\ out.state = (IF Cardinality(slots) >= message.num_required_signatures
                              THEN "FullySigned" ELSE "PartiallySigned")

C21_Witness ==
    /\ SignedWithKeys
    /\ tx.data.message.num_required_signatures = 2
    /\ Len(resp.args.private_keys) = 2
    /\ resp.args.private_keys[1] = resp.args.private_keys[2]
    /\ resp.reply.body.transaction.state = "PartiallySigned"
    /\ Len(resp.reply.body.transaction.signatures) = 1

\* A sign call whose transaction passes the permission and consistency checks
\* and carries a compiled message: the call gets as far as the signing method
SignReachesKeys ==
    /\ Answered("sign")
    /\ validate_operation_allowed_for_state(tx.state, "sign") = Ok
    /\ validate_transaction_state_consistency(tx) = Ok
    /\ tx.data.fmt = "message"

\* The keys of a list whose public key is an account of the message
RECURSIVE MatchingKeys(_, _)
MatchingKeys(message, private_keys) ==
    IF private_keys = <<>> THEN <<>>
    ELSE (IF position(message.account_keys, Head(private_keys).pubkey) # 0
             THEN <<Head(private_keys)>> ELSE <<>>)
         \o MatchingKeys(message, Tail(private_keys))

\* C22: a sign call that gets as far as the signing method answers
\* Unimplemented for seeds and InvalidArgument when a private key does not
\* parse (not base58, not 64 bytes, no key pair) or when no key is the key of
\* an account of the message; when every key parses and one matches, the
\* keys matching no account change nothing: the answer is not
\* InvalidArgument and it is the answer the matching keys alone would get.
C22_SignArgumentErrors ==
    SignReachesKeys =>
        LET message == tx.data.message
            method == resp.args.method
        IN /\ method = "seeds" => resp.reply.code = "Unimplemented"
           /\ method = "private_keys" =>
                LET ks == resp.args.private_keys
                    parsed == \A i \in 1..Len(ks) : ks[i].kind = "keypair"
                IN /\ ~parsed => resp.reply.code = "InvalidArgument"
                   /\ (parsed /\ MatchingKeys(message, ks) = <<>>)
                        => resp.reply.code = "InvalidArgument"
                   /\ (parsed /\ MatchingKeys(message, ks) # <<>>)
                        => /\ resp.reply.code # "InvalidArgument"
                           /\ resp.reply
                                = sign_transaction(TRUE, tx,
                                     [method |-> "private_keys",
                                      private_keys |-> MatchingKeys(message, ks)],
                                     [ok |-> TRUE, message |-> message])

C22_Witness ==
    /\ SignReachesKeys
    /\ resp.args.method = "private_keys"
    /\ Len(resp.args.private_keys) = 2
    /\ position(tx.data.message.account_keys, resp.args.private_keys[1].pubkey) = 0
    /\ resp.reply.code = "OK"
    /\ Len(resp.reply.body.transaction.signatures) = 1

C22_WitnessBadKey ==
    /\ SignReachesKeys
    /\ resp.args.method = "private_keys"
    /\ Len(resp.args.private_keys) = 2
    /\ resp.args.private_keys[2].kind = "wrong_length"
    /\ resp.reply.code = "InvalidArgument"

\* C23: a compile of a draft answers InvalidArgument when the instruction
\* list is empty, the fee payer is empty or no public key, or a supplied
\* blockhash is no hash; it answers Internal only when the blockhash had to be
\* fetched and the fetch failed; and with a supplied blockhash it makes no
\* network call.
C23_CompileErrorCodes ==
    (Answered("compile") /\ validate_operation_allowed_for_state(tx.state, "compile") = Ok)
    => /\ (\/ tx.instructions = <<>>
           \/ resp.args.fee_payer = ""
           \/ ~IsPubkey(resp.args.fee_payer)
           \/ (resp.args.recent_blockhash # "" /\ ~IsHash(resp.args.recent_blockhash)))
          => resp.reply.code = "InvalidArgument"
       /\ resp.reply.code = "Internal"
          => (resp.args.recent_blockhash = "" /\ resp.args.fetched = "Err")
       /\ resp.args.recent_blockhash # "" => resp.reply.net = <<>>

\* C27: a sign call that reaches the signing loop with keys that all parse
\* completes whatever accounts the keys belong to, signer or not: it never
\* ends in a panic, so no signature is written at or past the number of
\* required signers.
C27_SignNeverWritesOutOfRange ==
    (SignReachesKeys /\ resp.args.method = "private_keys"
        /\ \A i \in 1..Len(resp.args.private_keys) : resp.args.private_keys[i].kind = "keypair")
    => resp.reply.code # "Panic"

\* A transaction as a successful sign call returns it: signed data over the
\* compilation of its own instructions, each slot empty or holding the
\* signature of that slot's account, the signature list and the state
\* computed from the filled slots.
ProducedBySign(t) ==
    /\ t.state \in {"PartiallySigned", "FullySigned"}
    /\ t.data.fmt = "transaction"
    /\ t.data.message = new_with_blockhash(t.instructions, t.fee_payer, t.recent_blockhash)
    /\ Len(t.data.signatures) = t.data.message.num_required_signatures
    /\ \A i \in 1..Len(t.data.signatures) :
          t.data.signatures[i]
             \in {DefaultSignature, sign_message(t.data.message.account_keys[i], t.data.message)}
    /\ Populated(t.data) # {}
    /\ t.signatures = SelectNonDefault(t.data.signatures)
    /\ t.state = new_state(Len(t.signatures), t.data.message.num_required_signatures)

\* C28: estimate and simulate accept every transaction a successful sign
\* produced, partially or fully signed: they answer with a response, not with
\* an error status.
C28_SignedTransactionsAreAccepted ==
    ((Answered("estimate") \/ Answered("simulate")) /\ ProducedBySign(tx))
    => resp.reply.code = "OK"

\* An estimate call that made its simulation call, which failed
EstimatedWithoutSimulation ==
    /\ Answered("estimate")
    /\ resp.reply.net = <<"simulate_transaction">>
    /\ resp.args.simulation = SimulationFailed

\* C25: when the simulation call fails, estimate answers with a response
\* whose compute_units is 50,000 per instruction of the transaction, raised
\* to 200,000 when below and lowered to 1,400,000 when above, for every
\* number of instructions.
C25_FallbackEstimateIsClamped ==
    EstimatedWithoutSimulation =>
        LET product == Len(tx.instructions) * PerInstructionUnits
            expected == IF product < MinComputeUnits THEN MinComputeUnits
                        ELSE IF product > MaxComputeUnits THEN MaxComputeUnits
                        ELSE product
        IN /\ resp.reply.code = "OK"
           /\ resp.reply.body.compute_units = U64(expected)

C25_Witness ==
    /\ EstimatedWithoutSimulation
    /\ Len(tx.instructions) * PerInstructionUnits > MaxComputeUnits
    /\ resp.reply.code = "OK"
    /\ resp.reply.body.compute_units = U64(MaxComputeUnits)

C25_WitnessUnclamped ==
    /\ EstimatedWithoutSimulation
    /\ Len(tx.instructions) = 5
    /\ resp.reply.code = "OK"
    /\ resp.reply.body.compute_units = U64(5 * PerInstructionUnits)

\* The key lists of a sign request that parse
ParsedKeyLists ==
    {ks \in PrivateKeyLists : \A i \in 1..Len(ks) : ks[i].kind = "keypair"}

\* C26: the keys of a sign call leave no trace but the signatures.  The
\* returned transaction is the one sent with only signatures, state and data
\* replaced, its data holds the message that was sent, and every key list
\* that signs the same slots (in another order, with repetitions, with keys
\* of no account) gets the very same answer; the call changes no variable of
\* the service, validator or subscription map.
C26_KeysActOnlyThroughSignatures ==
    SignedWithKeys =>
        LET message == tx.data.message
            out == resp.reply.body.transaction
        IN /\ out = [tx EXCEPT !.signatures = out.signatures,
                               !.state = out.state,
                               !.data = out.data]
           /\ out.data.message = message
           /\ \A ks \in ParsedKeyLists :
                 MatchedSlots(message, ks) = MatchedSlots(message, resp.args.private_keys)
                 => sign_transaction(TRUE, tx, [method |-> "private_keys", private_keys |-> ks],
                                     [ok |-> TRUE, message |-> message]) = resp.reply
           /\ MonitorIdle
           /\ vin = ValidatorIdle
           /\ vout = "idle"

C26_Witness ==
    /\ SignedWithKeys
    /\ resp.args.private_keys = <<KeypairString("K2"), KeypairString("K1")>>
    /\ MatchedSlots(tx.data.message, resp.args.private_keys) = {1, 2}
    /\ resp.reply.body.transaction.state = "FullySigned"
    /\ sign_transaction(TRUE, tx,
          [method |-> "private_keys",
           private_keys |-> <<KeypairString("K1"), KeypairString("K2")>>],
          [ok |-> TRUE, message |-> tx.data.message]) = resp.reply

\* A monitor request the service has to refuse: a signature that is no
\* signature, a commitment outside the enum, or a timeout given (not 0, which
\* stands for none given) and outside 5..300
RefusedMonitorRequest(req) ==
    \/ ~IsSignature(req.signature)
    \/ ~req.commitment_valid
    \/ /\ req.timeout_seconds # 0
       /\ (req.timeout_seconds < MinTimeoutSeconds \/ req.timeout_seconds > MaxTimeoutSeconds)

\* C24: a monitor call whose signature is malformed, whose commitment is not
\* a value of the enum or whose requested timeout is outside 5..300 seconds is
\* answered InvalidArgument, and the step that answers it inserts no map
\* entry, starts no task and no bridge and sends nothing.
C24_InvalidMonitorRequestsCreateNothing ==
    [][(resp' # resp /\ resp'.op = "monitor" /\ RefusedMonitorRequest(resp'.args))
       => /\ resp'.reply.code = "InvalidArgument"
          /\ UNCHANGED <<task, active_subscriptions, bridge, websocket_rx, grpc_stream>>]_vars

C24_Witness ==
    /\ resp.op = "monitor"
    /\ resp.args.timeout_seconds = MaxTimeoutSeconds + 1
    /\ resp.reply.code = "InvalidArgument"
    /\ active_subscriptions["S1"] = 1
    /\ task[1].pc = "loop"
    /\ task[2].pc = "none"
    /\ bridge[2] = "none"

\* C30: one client stream carries at most one terminal status (Confirmed,
\* Finalized, Failed, Dropped): a terminal status is the last item of its
\* stream, and the stream has ended with it.
C30_OneTerminalStatusAndLast ==
    \A s \in Subs :
        \A i \in 1..Len(grpc_stream[s]) :
            grpc_stream[s][i].status \in {"Confirmed", "Finalized", "Failed", "Dropped"}
            => /\ i = Len(grpc_stream[s])
               /\ Closed(s)

C30_Witness ==
    \E s \in Subs :
        /\ Len(grpc_stream[s]) = 2
        /\ grpc_stream[s][1].status = "Processed"
        /\ grpc_stream[s][2] = Item("Finalized", "")
        /\ bridge[s] = "completed"
        /\ task[s].pc = "done"

\* Everything the task of subscription s has sent while its bridge runs:
\* what the client has received and what is queued for it
SentSoFar(s) == Range(grpc_stream[s] \o websocket_rx[s])

\* C29: once the push subscription is established, a status that polling can
\* see reaches the client before the timeout, with or without a push
\* notification and also when the push stream has ended: so a subscribed
\* task whose client is still listening never stops, with the status
\* visible, unless it has sent a terminal status or its timeout.
C29_PollingOutlivesThePushStream ==
    \A s \in Subs :
        (/\ task[s].subscribed
         /\ task[s].pc = "done"
         /\ bridge[s] = "running"
         /\ chain[task[s].signature] # "NotFound")
        => \E item \in SentSoFar(s) : is_terminal_status(item.status)

\* A submit call whose send failed: the response carries a structured error
SubmitFailed ==
    /\ Answered("submit")
    /\ resp.reply.code = "OK"
    /\ resp.reply.body.has_structured_error

\* C31: the blockhash_expiry_slot of a structured error is never below the
\* slot the network was at when the send failed, also when the read of the
\* current slot failed.
C31_ExpirySlotNotBelowNetworkSlot ==
    SubmitFailed =>
        resp.reply.body.structured_error.blockhash_expiry_slot >= resp.args.network_slot

\* C32: the two classifications of a failed send agree: with certainty
\* UnknownResolvable or Unknown (the network may have the transaction) the
\* submission result is Indeterminate, and with certainty NotSubmitted it is
\* not Indeterminate.
C32_ClassificationsAgree ==
    Classified =>
        /\ vout.structured_error.certainty \in {"UnknownResolvable", "Unknown"}
           => vout.submission_result = "Indeterminate"
        /\ vout.structured_error.certainty = "NotSubmitted"
           => vout.submission_result # "Indeterminate"

\* C33: no successful response of compile or sign carries state Unspecified
\* or Draft: compile returns Compiled, sign returns PartiallySigned or
\* FullySigned; and a FullySigned transaction is never returned in another
\* state: compile and sign refuse it, and the operations that accept it
\* return no transaction record.
C33_NoUnspecifiedOrDraftReturned ==
    (resp # ServiceIdle /\ resp.present /\ resp.reply.code = "OK")
    => /\ resp.op = "compile" => resp.reply.body.transaction.state = "Compiled"
       /\ resp.op = "sign"
          => resp.reply.body.transaction.state \in {"PartiallySigned", "FullySigned"}
       /\ tx.state = "FullySigned"
          => /\ resp.op \in {"estimate", "simulate", "submit"}
             /\ "transaction" \notin DOMAIN resp.reply.body

C33_Witness ==
    /\ ProducedBySign(tx)
    /\ tx.state = "FullySigned"
    /\ Answered("submit")
    /\ resp.reply.code = "OK"
    /\ "transaction" \notin DOMAIN resp.reply.body

\* C34: after shutdown has returned the subscription map is empty and no
\* monitoring task the manager spawned is still running: each has finished
\* or been aborted, the tasks of overwritten map entries and of
\* subscriptions created during the shutdown included.
C34_ShutdownAbortsEveryTask ==
    manager = "stopped"
    => /\ \A sig \in Signatures : active_subscriptions[sig] = 0
       /\ \A s \in Subs : task[s].pc \notin Running

\* The same for the tasks whose handle is in the map when shutdown starts
MappedTasksAreAborted ==
    [][ShutdownAbort =>
         \A s \in Subs : (\E sig \in Signatures : active_subscriptions[sig] = s)
                         => task'[s].pc \notin Running]_vars

\* The queue of subscription s keeps what it held, with or without more
\* appended
QueueKept(s) ==
    /\ Len(websocket_rx'[s]) >= Len(websocket_rx[s])
    /\ SubSeq(websocket_rx'[s], 1, Len(websocket_rx[s])) = websocket_rx[s]

\* C35: while the consumer stays connected and the bridge has not timed out,
\* the client stream is fed from the task's queue only, oldest first: every
\* item delivered is the head of the queue and leaves it, nothing leaves the
\* queue of a running bridge undelivered, and the bridge ends only after
\* delivering a terminal status or Timeout or on an empty queue; so the
\* client receives what the task emitted, in order, once each, up to and
\* including the first terminal status or Timeout.
C35_BridgeDeliversInOrder ==
    [][\A s \in Subs :
          bridge'[s] \notin {"disconnected", "timed_out"}
          => /\ grpc_stream'[s] # grpc_stream[s]
                => /\ bridge[s] = "running"
                   /\ websocket_rx[s] # <<>>
                   /\ grpc_stream'[s] = Append(grpc_stream[s], Head(websocket_rx[s]))
                   /\ IF is_terminal_status(Head(websocket_rx[s]).status)
                          THEN bridge'[s] = "completed"
                      ELSE /\ bridge'[s] = "running"
                           /\ websocket_rx'[s] = Tail(websocket_rx[s])
             /\ (bridge'[s] = "running" /\ ~QueueKept(s))
                => grpc_stream'[s] = Append(grpc_stream[s], Head(websocket_rx[s]))
             /\ (bridge[s] = "running" /\ bridge'[s] = "completed")
                => \/ websocket_rx[s] = <<>>
                   \/ /\ is_terminal_status(Head(websocket_rx[s]).status)
                      /\ grpc_stream'[s] = Append(grpc_stream[s], Head(websocket_rx[s]))]_vars

C35_Witness ==
    \E s \in Subs :
        /\ bridge[s] = "running"
        /\ grpc_stream[s] = <<Item("Processed", "")>>
        /\ websocket_rx[s] = <<Item("Finalized", "")>>
        /\ task[s].pc = "done"

\* An estimate call that got as far as computing its fees
EstimateComputed ==
    /\ Answered("estimate")
    /\ resp.reply.net = <<"simulate_transaction">>

\* C36: estimate answers with priority_fee = min(compute_units x
\* compute_unit_price, 1,000,000) taken on the exact product, whether or not
\* that product fits in 64 bits, when the price is above 0, with priority_fee
\* = 1,000 when the price is 0, and with fee_lamports = 5,000 + priority_fee.
C36_PriorityFeeOnTrueProduct ==
    EstimateComputed =>
        /\ resp.reply.code = "OK"
        /\ LET price == tx.compute_unit_price
               units == resp.reply.body.compute_units
               expected == IF IsZero(price) THEN DefaultPriorityFee
                           ELSE MinWith(FullProduct(units, price), PriorityFeeCap)
           IN /\ resp.reply.body.priority_fee = expected
              /\ resp.reply.body.fee_lamports = BaseFeeLamports + expected

\* The same for the products that fit in 64 bits
PriorityFeeWithoutOverflow ==
    (EstimateComputed /\ resp.reply.code = "OK"
        /\ ~overflowing_mul(resp.reply.body.compute_units, tx.compute_unit_price).overflow)
    => LET price == tx.compute_unit_price
           units == resp.reply.body.compute_units
           expected == IF IsZero(price) THEN DefaultPriorityFee
                       ELSE MinWith(FullProduct(units, price), PriorityFeeCap)
       IN /\ resp.reply.body.priority_fee = expected
          /\ resp.reply.body.fee_lamports = BaseFeeLamports + expected

\* The URL a server was configured to open its push subscriptions on
ConfiguredWsUrl(config) ==
    IF config.websocket_url # <<>> THEN config.websocket_url[1]
    ELSE derive_websocket_url_from_rpc(config.rpc_url).url

\* C37: every push subscription the monitoring opens connects to the
\* WebSocket URL the server's manager was constructed with, the configured
\* one or the one derived from the RPC URL, whatever that URL is.
C37_SubscriptionsUseTheConfiguredUrl ==
    \A s \in Subs :
        (resp.op = "new_with_config" /\ task[s].pc \in {"subscribe", "loop"})
        => pubsub_url(s) = ConfiguredWsUrl(resp.args)

\* The subscriptions of a server configured with the URL of manager.rs:65
SubscriptionsUseTheBuiltInUrl ==
    \A s \in Subs :
        (/\ resp.op = "new_with_config"
         /\ task[s].pc \in {"subscribe", "loop"}
         /\ ConfiguredWsUrl(resp.args) = WebSocketManager_new(NotAUrl, NotAUrl).websocket_manager.ws_url)
        => pubsub_url(s) = ConfiguredWsUrl(resp.args)

====
